---- MODULE Spec2Model ----
(***************************************************************************)
(* filterworld: the frame compositing engine (Layer / Pane / GridLayout /  *)
(* Canvas), the configuration defaults and the streaming Pipeline.run      *)
(* loop, as state machines.                                                *)
(*                                                                         *)
(* Conventions                                                             *)
(*   - Python None is the empty sequence, a present value x is <<x>>.      *)
(*   - an image is [h, w, px] with px[y, x] an <<r, g, b>> triple of 8-bit *)
(*     samples; coordinates are 1-based here and 0-based in the source.    *)
(*   - an opacity is counted in quarters (0 = 0.0, 2 = 0.5, 4 = 1.0): the  *)
(*     float32 blend  t*(1-a) + f*a  is exact for these values, so the     *)
(*     truncation astype(uint8) is the integer division below.             *)
(*   - a call that may raise returns a record with ok = FALSE and the      *)
(*     message kind in err.                                                *)
(***************************************************************************)
EXTENDS Integers, Sequences, FiniteSets, TLC

\* ------------------------------------------------------------------ bounds
\* frames in the source video: 0..MaxFrames
MaxFrames == 2
\* input frame width and height: 1..MaxDim
MaxDim == 2
\* configured column count: 1..MaxCols
MaxCols == 3
\* panes handed to GridLayout.arrange: 0..MaxPanes
MaxPanes == 3
\* configured output width and height: 1..MaxOut
MaxOut == 3
\* layers in the stack of a pane rendered on its own: 0..MaxLayers
MaxLayers == 2
\* calls made on a VideoWriter or a FeatureLayer exercised on its own: 0..MaxCalls
MaxCalls == 3

\* ----------------------------------------------------------------- options
None == <<>>
Some(x) == <<x>>
IsNone(o) == Len(o) = 0
Get(o) == o[1]
\* Python's  a or b  on an optional integer: None and 0 are both falsy
OrElse(o, d) == IF IsNone(o) \/ Get(o) = 0 THEN d ELSE Get(o)

\* ------------------------------------------------------------------ images
Black == <<0, 0, 0>>
\* np.zeros((h, w, 3), dtype=np.uint8)
Zeros(h, w) == [h |-> h, w |-> w, px |-> [y \in 1..h, x \in 1..w |-> Black]]
\* an image whose samples all equal v
Uniform(h, w, v) == [h |-> h, w |-> w, px |-> [y \in 1..h, x \in 1..w |-> <<v, v, v>>]]
IsUniform(img) ==
    \A p, q \in DOMAIN img.px : img.px[p] = img.px[q]
\* a pixel cv2 computes by interpolating a non-uniform source at a different
\* size: its value is not modelled
Interpolated == <<-1, -1, -1>>

Ok(v) == [ok |-> TRUE, val |-> v, err |-> ""]
Raise(e) == [ok |-> FALSE, val |-> Zeros(0, 0), err |-> e]

\* cv2.resize(src, (w, h), interpolation): raises on an empty dsize or an
\* empty source; a resize to the source's own size returns the source's
\* samples; INTER_NEAREST takes the sample at floor(x * src_w / w); the
\* default INTER_LINEAR of a uniform image is that uniform colour.
cv2_resize(src, w, h, interpolation) ==
    IF w <= 0 \/ h <= 0 \/ src.w <= 0 \/ src.h <= 0
    THEN Raise("cv2.error")
    ELSE IF w = src.w /\ h = src.h
    THEN Ok(src)
    ELSE IF interpolation = "INTER_NEAREST"
    THEN Ok([h |-> h, w |-> w,
             px |-> [y \in 1..h, x \in 1..w |->
                       src.px[((y - 1) * src.h) \div h + 1,
                              ((x - 1) * src.w) \div w + 1]]])
    ELSE IF IsUniform(src)
    THEN Ok([h |-> h, w |-> w,
             px |-> [y \in 1..h, x \in 1..w |-> src.px[1, 1]]])
    ELSE Ok([h |-> h, w |-> w,
             px |-> [y \in 1..h, x \in 1..w |-> Interpolated]])

\* ------------------------------------------------------- filter outputs
\* FilterOutput(frame_idx) and FeatureOutput(frame_idx, features); features
\* is a (D, H, W) tensor [d, h, w, v] with v[c, y, x] an integer.
NoFeatures == [d |-> 0, h |-> 0, w |-> 0, v |-> [c \in {}, y \in {}, x \in {} |-> 0]]
FilterOutput(frame_idx) ==
    [cls |-> "FilterOutput", frame_idx |-> frame_idx, features |-> NoFeatures]
FeatureOutput(frame_idx, features) ==
    [cls |-> "FeatureOutput", frame_idx |-> frame_idx, features |-> features]

\* -------------------------------------------------------------------- layers
\* np.clip(opacity, 0.0, 1.0), in quarters
Clip(q) == IF q < 0 THEN 0 ELSE IF q > 4 THEN 4 ELSE q

\* a layer object; the fields after opacity are FeatureLayer's.  basis_reads
\* is not a field of the source: it counts the np.load calls the layer has
\* made on its basis file.
LayerObj(kind, opacity, method, pca_path) ==
    [kind |-> kind, opacity |-> Clip(opacity), method |-> method,
     pca_path |-> pca_path, pca_components |-> None, pca_mean |-> None,
     basis_reads |-> 0]

\* FeatureLayer.__init__ leaving a missing path to be found at render time
FeatureLayer_init_Deferred(method, opacity, pca_path) ==
    [ok |-> TRUE, layer |-> LayerObj("feature", opacity, method, pca_path),
     err |-> ""]

\* FeatureLayer.__init__: method 'pca' without a path is rejected at once
FeatureLayer_init(method, opacity, pca_path) ==
    IF method = "pca" /\ IsNone(pca_path)
    THEN [ok |-> FALSE, layer |-> LayerObj("feature", opacity, method, pca_path),
          err |-> "ValueError: pca_path is required"]
    ELSE [ok |-> TRUE, layer |-> LayerObj("feature", opacity, method, pca_path),
          err |-> ""]

\* the blend of one sample rounded to the nearest integer, halves upwards
BlendSample_Rounded(t, f, opacity) == (t * (4 - opacity) + f * opacity + 2) \div 4

\* (target * (1 - opacity) + top * opacity).astype(np.uint8), one sample
BlendSample(t, f, opacity) == (t * (4 - opacity) + f * opacity) \div 4
BlendPixel(t, f, opacity) ==
    IF f = Interpolated \/ t = Interpolated THEN Interpolated
    ELSE <<BlendSample(t[1], f[1], opacity),
           BlendSample(t[2], f[2], opacity),
           BlendSample(t[3], f[3], opacity)>>
\* numpy broadcasting of two axis lengths: equal, or one of them 1
Broadcasts(a, b) == a = b \/ a = 1 \/ b = 1
BroadcastLen(a, b) == IF a = 1 THEN b ELSE a
BroadcastIdx(n, i) == IF n = 1 THEN 1 ELSE i
\* the element-wise blend of two (H, W, 3) arrays, broadcast over H and W
Blend(target, top, opacity) ==
    IF ~Broadcasts(target.h, top.h) \/ ~Broadcasts(target.w, top.w)
    THEN Raise("ValueError: operands could not be broadcast")
    ELSE Ok([h |-> BroadcastLen(target.h, top.h),
             w |-> BroadcastLen(target.w, top.w),
             px |-> [y \in 1..BroadcastLen(target.h, top.h),
                     x \in 1..BroadcastLen(target.w, top.w) |->
                       BlendPixel(target.px[BroadcastIdx(target.h, y),
                                            BroadcastIdx(target.w, x)],
                                  top.px[BroadcastIdx(top.h, y),
                                         BroadcastIdx(top.w, x)],
                                  opacity)]])

\* a call's result val/err, together with the layer as the call leaves it;
\* obj tells which array object is returned: a "fresh" one (a copy, a blend,
\* a resize), or the caller's "target" or "frame" itself
LayerResult(r, layer) ==
    [ok |-> r.ok, val |-> r.val, layer |-> layer, err |-> r.err, obj |-> "fresh"]

\* ImageLayer.render returning the frame object itself at full opacity
ImageLayer_render_NoCopy(layer, target, frame, filter_output) ==
    IF layer.opacity >= 4
    THEN [LayerResult(Ok(frame), layer) EXCEPT !.obj = "frame"]
    ELSE LayerResult(Blend(target, frame, layer.opacity), layer)

\* ImageLayer.render: frame.copy() at full opacity, else the blend
ImageLayer_render(layer, target, frame, filter_output) ==
    IF layer.opacity >= 4
    THEN LayerResult(Ok(frame), layer)
    ELSE LayerResult(Blend(target, frame, layer.opacity), layer)

SetMin(S) == CHOOSE m \in S : \A n \in S : m <= n
SetMax(S) == CHOOSE m \in S : \A n \in S : m >= n

\* (x - lo) / (hi - lo) * 255.0 truncated, or 0 when hi = lo
Normalize(x, lo, hi) == IF hi - lo > 0 THEN ((x - lo) * 255) \div (hi - lo) ELSE 0

\* the values of channel c (from 1) of a feature tensor
Channel(features, c) ==
    {features.v[c, y, x] : y \in 1..features.h, x \in 1..features.w}

\* the values of channels 1..3 together
FirstThree(features) ==
    Channel(features, 1) \cup Channel(features, 2) \cup Channel(features, 3)

\* _reduce_first3 normalising with one minimum and maximum over the three
\* channels, as _reduce_pca does
reduce_first3_GlobalRange(features) ==
    IF features.d = 0
    THEN Raise("IndexError")
    ELSE IF features.h = 0 \/ features.w = 0
    THEN Raise("ValueError: zero-size array to reduction operation")
    ELSE IF features.d < 3
    THEN Raise("IndexError")
    ELSE Ok([h |-> features.h, w |-> features.w,
             px |-> [y \in 1..features.h, x \in 1..features.w |->
                       [c \in 1..3 |->
                          Normalize(features.v[c, y, x],
                                    SetMin(FirstThree(features)),
                                    SetMax(FirstThree(features)))]]])

\* FeatureLayer._reduce_first3: channels 0..2, each min-max normalised to
\* 0..255 on its own and truncated; a constant channel is all zero.
reduce_first3(features) ==
    IF features.d = 0
    THEN Raise("IndexError")
    ELSE IF features.h = 0 \/ features.w = 0
    THEN Raise("ValueError: zero-size array to reduction operation")
    ELSE IF features.d < 3
    THEN Raise("IndexError")
    ELSE Ok([h |-> features.h, w |-> features.w,
             px |-> [y \in 1..features.h, x \in 1..features.w |->
                       [c \in 1..3 |->
                          Normalize(features.v[c, y, x],
                                    SetMin(Channel(features, c)),
                                    SetMax(Channel(features, c)))]]])

RECURSIVE Dot(_, _)
Dot(a, b) == IF Len(a) = 0 THEN 0 ELSE a[1] * b[1] + Dot(Tail(a), Tail(b))

\* the load of _reduce_pca done anew on every reduction, nothing kept from
\* the call before
pca_load_Uncached(layer, fs) ==
    IF ~fs[Get(layer.pca_path)].exists
    THEN [ok |-> FALSE, layer |-> [layer EXCEPT !.basis_reads = @ + 1],
          err |-> "FileNotFoundError"]
    ELSE IF IsNone(fs[Get(layer.pca_path)].components)
    THEN [ok |-> FALSE, layer |-> [layer EXCEPT !.basis_reads = @ + 1],
          err |-> "KeyError: components"]
    ELSE IF IsNone(fs[Get(layer.pca_path)].mean)
    THEN [ok |-> FALSE,
          layer |-> [layer EXCEPT !.pca_components = fs[Get(layer.pca_path)].components,
                                  !.basis_reads = @ + 1],
          err |-> "KeyError: mean"]
    ELSE [ok |-> TRUE,
          layer |-> [layer EXCEPT !.pca_components = fs[Get(layer.pca_path)].components,
                                  !.pca_mean = fs[Get(layer.pca_path)].mean,
                                  !.basis_reads = @ + 1],
          err |-> ""]

\* the first-use load of FeatureLayer._reduce_pca: np.load(path) of the
\* basis file in the file system fs, where fs[path] is
\* [exists, components, mean] with an absent array None; components is
\* cached before mean is read
pca_load(layer, fs) ==
    IF ~IsNone(layer.pca_components)
    THEN [ok |-> TRUE, layer |-> layer, err |-> ""]
    ELSE IF ~fs[Get(layer.pca_path)].exists
    THEN [ok |-> FALSE, layer |-> [layer EXCEPT !.basis_reads = @ + 1],
          err |-> "FileNotFoundError"]
    ELSE IF IsNone(fs[Get(layer.pca_path)].components)
    THEN [ok |-> FALSE, layer |-> [layer EXCEPT !.basis_reads = @ + 1],
          err |-> "KeyError: components"]
    ELSE IF IsNone(fs[Get(layer.pca_path)].mean)
    THEN [ok |-> FALSE,
          layer |-> [layer EXCEPT !.pca_components = fs[Get(layer.pca_path)].components,
                                  !.basis_reads = @ + 1],
          err |-> "KeyError: mean"]
    ELSE [ok |-> TRUE,
          layer |-> [layer EXCEPT !.pca_components = fs[Get(layer.pca_path)].components,
                                  !.pca_mean = fs[Get(layer.pca_path)].mean,
                                  !.basis_reads = @ + 1],
          err |-> ""]

\* projected[y * w + x, k]: the patch vector at (y, x), less the mean, on
\* component k
Projected(features, mean, comp, y, x, k) ==
    Dot([c \in 1..features.d |-> features.v[c, y, x] - mean[c]], comp[k])
ProjectedValues(features, mean, comp) ==
    {Projected(features, mean, comp, y, x, k) :
       y \in 1..features.h, x \in 1..features.w, k \in 1..3}

\* the projection of FeatureLayer._reduce_pca with the basis (mean, comp):
\* normalise with the global min and max, reshape to (h, w, 3)
pca_project(features, mean, comp) ==
    IF Len(mean) # features.d \/ Len(comp) # 3
       \/ \E k \in 1..Len(comp) : Len(comp[k]) # features.d
    THEN Raise("ValueError: shapes not aligned")
    ELSE IF features.h = 0 \/ features.w = 0
    THEN Raise("ValueError: zero-size array to reduction operation")
    ELSE Ok([h |-> features.h, w |-> features.w,
             px |-> [y \in 1..features.h, x \in 1..features.w |->
                       [k \in 1..3 |->
                          Normalize(Projected(features, mean, comp, y, x, k),
                                    SetMin(ProjectedValues(features, mean, comp)),
                                    SetMax(ProjectedValues(features, mean, comp)))]]])

\* FeatureLayer._reduce_pca after the load: a failed load raises, a cache
\* without a mean cannot be subtracted
pca_loaded(loaded, features) ==
    IF ~loaded.ok
    THEN LayerResult(Raise(loaded.err), loaded.layer)
    ELSE IF IsNone(loaded.layer.pca_mean)
    THEN LayerResult(Raise("TypeError: unsupported operand"), loaded.layer)
    ELSE LayerResult(pca_project(features, Get(loaded.layer.pca_mean),
                                 Get(loaded.layer.pca_components)),
                     loaded.layer)

\* FeatureLayer._reduce_pca
reduce_pca(layer, features, fs) == pca_loaded(pca_load(layer, fs), features)

\* FeatureLayer._reduce: dispatch on the method
FeatureLayer_reduce(layer, features, fs) ==
    IF layer.method = "first3"
    THEN LayerResult(reduce_first3(features), layer)
    ELSE IF layer.method = "pca"
    THEN reduce_pca(layer, features, fs)
    ELSE LayerResult(Raise("ValueError: unsupported feature reduction method"), layer)

\* the end of FeatureLayer.render: the resized visualisation itself at full
\* opacity, else its blend over the target
feature_blend(layer, target, vis_resized) ==
    IF ~vis_resized.ok THEN LayerResult(vis_resized, layer)
    ELSE IF layer.opacity >= 4 THEN LayerResult(vis_resized, layer)
    ELSE LayerResult(Blend(target, vis_resized.val, layer.opacity), layer)

\* FeatureLayer.render once the features are reduced to vis: resize to the
\* frame with nearest-neighbour sampling and blend
feature_show(vis, target, frame) ==
    IF ~vis.ok THEN vis
    ELSE feature_blend(vis.layer, target,
                       cv2_resize(vis.val, frame.w, frame.h, "INTER_NEAREST"))

\* FeatureLayer.render reducing whatever the output holds, of any class
FeatureLayer_render_Unchecked(layer, target, frame, filter_output, fs) ==
    feature_show(FeatureLayer_reduce(layer, filter_output.features, fs),
                 target, frame)

\* FeatureLayer.render: pass the target through unless the output carries
\* features
FeatureLayer_render(layer, target, frame, filter_output, fs) ==
    IF filter_output.cls # "FeatureOutput"
    THEN [LayerResult(Ok(target), layer) EXCEPT !.obj = "target"]
    ELSE feature_show(FeatureLayer_reduce(layer, filter_output.features, fs),
                      target, frame)

\* Layer.render, by the layer's class
Layer_render(layer, target, frame, filter_output, fs) ==
    IF layer.kind = "image"
    THEN ImageLayer_render(layer, target, frame, filter_output)
    ELSE FeatureLayer_render(layer, target, frame, filter_output, fs)

\* ---------------------------------------------------------------------- pane
\* Pane.render's loop from layer i on: each layer's result r is the next
\* layer's target; a raising layer ends the loop, and every layer keeps
\* what it cached
RECURSIVE PaneFold(_, _, _, _, _, _)
RECURSIVE PaneStep(_, _, _, _, _, _)
PaneFold(layers, i, target, frame, filter_output, fs) ==
    IF i > Len(layers)
    THEN [ok |-> TRUE, val |-> target, layers |-> layers, err |-> ""]
    ELSE PaneStep(layers, i, Layer_render(layers[i], target, frame, filter_output, fs),
                  frame, filter_output, fs)
PaneStep(layers, i, r, frame, filter_output, fs) ==
    IF ~r.ok
    THEN [ok |-> FALSE, val |-> Zeros(0, 0),
          layers |-> [layers EXCEPT ![i] = r.layer], err |-> r.err]
    ELSE PaneFold([layers EXCEPT ![i] = r.layer], i + 1, r.val, frame, filter_output, fs)

PaneResult(r, pane) ==
    [ok |-> r.ok, val |-> r.val, pane |-> [pane EXCEPT !.layers = r.layers],
     err |-> r.err]

\* Pane.render handing the frame to the first layer as its target
Pane_render_FromFrame(pane, frame, filter_output, fs) ==
    PaneResult(PaneFold(pane.layers, 1, frame, frame, filter_output, fs), pane)

\* Pane.render: fold the layer stack over a zero image of the frame's size
Pane_render(pane, frame, filter_output, fs) ==
    PaneResult(PaneFold(pane.layers, 1, Zeros(frame.h, frame.w), frame,
                        filter_output, fs),
               pane)

\* ------------------------------------------------------------- configuration
\* dict.get(key, default) on an optional entry
GetOr(o, d) == IF IsNone(o) THEN d ELSE Get(o)

\* LayoutConfig(), PaneConfig(), OutputConfig() and Config(): the defaults
LayoutConfig == [type |-> "grid", rows |-> 1, cols |-> 1]
OutputConfig == [fps |-> None, codec |-> "mp4v", width |-> None, height |-> None]
Config == [layout |-> LayoutConfig, panes |-> <<>>, output |-> OutputConfig]

\* load_config with GridLayout's default of two columns for an absent cols
load_config_TwoCols(config_path) ==
    IF IsNone(config_path) THEN Config
    ELSE [layout |-> [type |-> GetOr(Get(config_path).layout.type, "grid"),
                      rows |-> GetOr(Get(config_path).layout.rows, 1),
                      cols |-> GetOr(Get(config_path).layout.cols, 2)],
          panes  |-> [i \in 1..Len(Get(config_path).panes) |->
                        [layers |-> Get(config_path).panes[i].layers,
                         label  |-> Get(config_path).panes[i].label]],
          output |-> [fps    |-> Get(config_path).output.fps,
                      codec  |-> GetOr(Get(config_path).output.codec, "mp4v"),
                      width  |-> Get(config_path).output.width,
                      height |-> Get(config_path).output.height]]

\* load_config: None gives Config(); else every absent key of the parsed
\* mapping raw takes its default.  raw is
\*   [layout |-> [type, rows, cols], panes |-> <<[layers, label], ...>>,
\*    output |-> [fps, codec, width, height]]   with optional entries.
load_config(config_path) ==
    IF IsNone(config_path) THEN Config
    ELSE LET raw == Get(config_path)
         IN  [layout |-> [type |-> GetOr(raw.layout.type, "grid"),
                          rows |-> GetOr(raw.layout.rows, 1),
                          cols |-> GetOr(raw.layout.cols, 1)],
              panes  |-> [i \in 1..Len(raw.panes) |->
                            [layers |-> raw.panes[i].layers,
                             label  |-> raw.panes[i].label]],
              output |-> [fps    |-> raw.output.fps,
                          codec  |-> GetOr(raw.output.codec, "mp4v"),
                          width  |-> raw.output.width,
                          height |-> raw.output.height]]

\* ------------------------------------------------------------ layer registry
\* the keys of _LAYER_REGISTRY
LAYER_REGISTRY == {"image", "feature"}

\* _build_layer building an ImageLayer for a type the registry lacks
build_layer_Fallback(layer_dict) ==
    IF GetOr(layer_dict.type, "image") = "feature"
    THEN FeatureLayer_init(GetOr(layer_dict.method, "first3"),
                           GetOr(layer_dict.opacity, 4), layer_dict.pca_path)
         @@ [offending |-> "feature", known |-> LAYER_REGISTRY]
    ELSE IF ~IsNone(layer_dict.method) \/ ~IsNone(layer_dict.pca_path)
    THEN [ok |-> FALSE, layer |-> LayerObj("image", 4, "", None),
          err |-> "TypeError: unexpected keyword argument",
          offending |-> "image", known |-> LAYER_REGISTRY]
    ELSE [ok |-> TRUE,
          layer |-> LayerObj("image", GetOr(layer_dict.opacity, 4), "", None),
          err |-> "", offending |-> "image", known |-> LAYER_REGISTRY]

\* _build_layer: a layer dict is [type, opacity, method, pca_path], each
\* optional.  pop('type', 'image'), look the class up, call it with the
\* remaining keys (ImageLayer takes opacity only).
build_layer(layer_dict) ==
    LET layer_type == GetOr(layer_dict.type, "image")
        opacity == GetOr(layer_dict.opacity, 4)
    IN  IF layer_type \notin LAYER_REGISTRY
        THEN [ok |-> FALSE, layer |-> LayerObj("image", 4, "", None),
              err |-> "ValueError: unknown layer type",
              offending |-> layer_type, known |-> LAYER_REGISTRY]
        ELSE IF layer_type = "image"
        THEN IF ~IsNone(layer_dict.method) \/ ~IsNone(layer_dict.pca_path)
             THEN [ok |-> FALSE, layer |-> LayerObj("image", 4, "", None),
                   err |-> "TypeError: unexpected keyword argument",
                   offending |-> layer_type, known |-> LAYER_REGISTRY]
             ELSE [ok |-> TRUE, layer |-> LayerObj("image", opacity, "", None),
                   err |-> "", offending |-> layer_type, known |-> LAYER_REGISTRY]
        ELSE FeatureLayer_init(GetOr(layer_dict.method, "first3"),
                               opacity, layer_dict.pca_path)
             @@ [offending |-> layer_type, known |-> LAYER_REGISTRY]

\* --------------------------------------------------------------- grid layout
\* GridLayout(width, height, n_cols)
GridLayout(width, height, n_cols) ==
    [width |-> width, height |-> height, n_cols |-> n_cols]

\* output[y_start:y_start + cell_h, x_start:x_start + cell_w] = resized :
\* a slice that leaves the array is cut short, and assigning an image of
\* another shape to it raises
Blit(output, resized, y_start, x_start, cell_h, cell_w) ==
    IF y_start + cell_h > output.h \/ x_start + cell_w > output.w
       \/ resized.h # cell_h \/ resized.w # cell_w
    THEN Raise("ValueError: could not broadcast input array")
    ELSE Ok([output EXCEPT !.px =
               [y \in 1..output.h, x \in 1..output.w |->
                  IF /\ y > y_start /\ y <= y_start + cell_h
                     /\ x > x_start /\ x <= x_start + cell_w
                  THEN resized.px[y - y_start, x - x_start]
                  ELSE output.px[y, x]]])

\* the loop of GridLayout.arrange from pane idx (0-based) on: resize the
\* pane image to the cell, write it into the cell's slice of the output
RECURSIVE ArrangeLoop(_, _, _, _, _, _)
RECURSIVE ArrangePlace(_, _, _, _, _, _, _)
RECURSIVE ArrangeNext(_, _, _, _, _, _)
ArrangeLoop(layout, rendered_panes, idx, output, cell_w, cell_h) ==
    IF idx >= Len(rendered_panes)
    THEN Ok(output)
    ELSE ArrangePlace(layout, rendered_panes, idx, output, cell_w, cell_h,
                      cv2_resize(rendered_panes[idx + 1], cell_w, cell_h, "INTER_LINEAR"))
\* the placement step of GridLayout.arrange filling the grid column by column
ArrangePlace_ColumnMajor(layout, rendered_panes, idx, output, cell_w, cell_h, resized) ==
    IF ~resized.ok THEN resized
    ELSE ArrangeNext(layout, rendered_panes, idx, cell_w, cell_h,
                     Blit(output, resized.val,
                          (idx % layout.n_cols) * cell_h,
                          (idx \div layout.n_cols) * cell_w,
                          cell_h, cell_w))
ArrangePlace(layout, rendered_panes, idx, output, cell_w, cell_h, resized) ==
    IF ~resized.ok THEN resized
    ELSE ArrangeNext(layout, rendered_panes, idx, cell_w, cell_h,
                     Blit(output, resized.val,
                          (idx \div layout.n_cols) * cell_h,
                          (idx % layout.n_cols) * cell_w,
                          cell_h, cell_w))
ArrangeNext(layout, rendered_panes, idx, cell_w, cell_h, placed) ==
    IF ~placed.ok THEN placed
    ELSE ArrangeLoop(layout, rendered_panes, idx + 1, placed.val, cell_w, cell_h)

\* n_rows, cell_w and cell_h of GridLayout.arrange for n_panes panes
grid_n_rows(layout, n_panes) == (n_panes + layout.n_cols - 1) \div layout.n_cols
grid_cell_w(layout) == layout.width \div layout.n_cols
grid_cell_h(layout, n_panes) == layout.height \div grid_n_rows(layout, n_panes)

\* GridLayout.arrange allocating its output as (width, height)
GridLayout_arrange_Transposed(layout, rendered_panes) ==
    IF Len(rendered_panes) = 0
    THEN Ok(Zeros(layout.width, layout.height))
    ELSE IF Len(rendered_panes) = 1
    THEN cv2_resize(rendered_panes[1], layout.height, layout.width, "INTER_LINEAR")
    ELSE ArrangeLoop(layout, rendered_panes, 0,
                     Zeros(layout.width, layout.height),
                     grid_cell_w(layout),
                     grid_cell_h(layout, Len(rendered_panes)))

\* GridLayout.arrange handing back a single pane as it is, not resized
GridLayout_arrange_PaneSize(layout, rendered_panes) ==
    IF Len(rendered_panes) = 0
    THEN Ok(Zeros(layout.height, layout.width))
    ELSE IF Len(rendered_panes) = 1
    THEN Ok(rendered_panes[1])
    ELSE ArrangeLoop(layout, rendered_panes, 0,
                     Zeros(layout.height, layout.width),
                     grid_cell_w(layout),
                     grid_cell_h(layout, Len(rendered_panes)))

\* GridLayout.arrange without the single-pane case
GridLayout_arrange_NoSingle(layout, rendered_panes) ==
    IF Len(rendered_panes) = 0
    THEN Ok(Zeros(layout.height, layout.width))
    ELSE ArrangeLoop(layout, rendered_panes, 0,
                     Zeros(layout.height, layout.width),
                     grid_cell_w(layout),
                     grid_cell_h(layout, Len(rendered_panes)))

\* GridLayout.arrange
GridLayout_arrange(layout, rendered_panes) ==
    IF Len(rendered_panes) = 0
    THEN Ok(Zeros(layout.height, layout.width))
    ELSE IF Len(rendered_panes) = 1
    THEN cv2_resize(rendered_panes[1], layout.width, layout.height, "INTER_LINEAR")
    ELSE ArrangeLoop(layout, rendered_panes, 0,
                     Zeros(layout.height, layout.width),
                     grid_cell_w(layout),
                     grid_cell_h(layout, Len(rendered_panes)))

\* -------------------------------------------------------------------- canvas
\* Pane(layers, label)
Pane(layers, label) == [layers |-> layers, label |-> label]

\* the first layer definition (by index) that raised, as the error of the
\* whole construction
FirstBad(built, bad) ==
    [ok |-> FALSE, err |-> built[SetMin(bad)].err,
     offending |-> built[SetMin(bad)].offending, known |-> LAYER_REGISTRY]

\* one pane of Canvas._build_from_config from its built layers
PaneBuilt(built, label) ==
    IF \A i \in DOMAIN built : built[i].ok
    THEN [ok |-> TRUE, pane |-> Pane([i \in DOMAIN built |-> built[i].layer], label),
          err |-> "", offending |-> "", known |-> LAYER_REGISTRY]
    ELSE [ok |-> FALSE, pane |-> Pane(<<>>, None)]
         @@ FirstBad(built, {i \in DOMAIN built : ~built[i].ok})

\* one pane of Canvas._build_from_config: every layer dict through
\* _build_layer, in order; the first one that raises ends construction
BuildPane(pane_cfg) ==
    PaneBuilt([i \in 1..Len(pane_cfg.layers) |-> build_layer(pane_cfg.layers[i])],
              pane_cfg.label)

\* Canvas._build_default: one pane holding one ImageLayer()
Canvas_build_default == <<Pane(<<LayerObj("image", 4, "", None)>>, Some("original"))>>

\* Canvas.__init__ handing back a Canvas of the panes that could be built
CanvasBuilt_Partial(config, built) ==
    IF \A i \in DOMAIN built : built[i].ok
    THEN [ok |-> TRUE,
          canvas |-> Some([config |-> config,
                           panes |-> IF Len(config.panes) > 0
                                     THEN [i \in DOMAIN built |-> built[i].pane]
                                     ELSE Canvas_build_default,
                           layout |-> None]),
          err |-> "", offending |-> "", known |-> LAYER_REGISTRY]
    ELSE [ok |-> FALSE,
          canvas |-> Some([config |-> config,
                           panes |-> [i \in DOMAIN built |-> built[i].pane],
                           layout |-> None])]
         @@ FirstBad(built, {i \in DOMAIN built : ~built[i].ok})

\* Canvas.__init__ from the built panes: the layout starts as None; a
\* raising layer definition leaves no Canvas
CanvasBuilt(config, built) ==
    IF \A i \in DOMAIN built : built[i].ok
    THEN [ok |-> TRUE,
          canvas |-> Some([config |-> config,
                           panes |-> IF Len(config.panes) > 0
                                     THEN [i \in DOMAIN built |-> built[i].pane]
                                     ELSE Canvas_build_default,
                           layout |-> None]),
          err |-> "", offending |-> "", known |-> LAYER_REGISTRY]
    ELSE [ok |-> FALSE, canvas |-> None]
         @@ FirstBad(built, {i \in DOMAIN built : ~built[i].ok})

\* Canvas.__init__: panes from the configuration, or the default pane
Canvas_init(config) ==
    CanvasBuilt(config, [i \in 1..Len(config.panes) |-> BuildPane(config.panes[i])])

\* Canvas._init_layout assigning a grid layout before it looks at the type
Canvas_init_layout_AssignFirst(canvas, frame_width, frame_height) ==
    [ok |-> canvas.config.layout.type = "grid",
     canvas |-> [canvas EXCEPT !.layout =
        Some(GridLayout(
               OrElse(canvas.config.output.width,
                      frame_width * canvas.config.layout.cols),
               OrElse(canvas.config.output.height,
                      frame_height * ((Len(canvas.panes) + canvas.config.layout.cols - 1)
                                        \div canvas.config.layout.cols)),
               canvas.config.layout.cols))],
     err |-> IF canvas.config.layout.type = "grid" THEN ""
             ELSE "ValueError: unsupported layout type"]

\* Canvas._init_layout with the row count rounded down
Canvas_init_layout_FloorRows(canvas, frame_width, frame_height) ==
    IF canvas.config.layout.type = "grid"
    THEN [ok |-> TRUE,
          canvas |-> [canvas EXCEPT !.layout =
             Some(GridLayout(
                    OrElse(canvas.config.output.width,
                           frame_width * canvas.config.layout.cols),
                    OrElse(canvas.config.output.height,
                           frame_height * (Len(canvas.panes)
                                             \div canvas.config.layout.cols)),
                    canvas.config.layout.cols))],
          err |-> ""]
    ELSE [ok |-> FALSE, canvas |-> canvas,
          err |-> "ValueError: unsupported layout type"]

\* Canvas._init_layout: columns from the configuration, rows by rounding
\* the pane count up, a size the configuration gives or else one input
\* frame per cell; only 'grid' is a layout type
Canvas_init_layout(canvas, frame_width, frame_height) ==
    LET output_cfg == canvas.config.output
        layout_cfg == canvas.config.layout
        n_panes == Len(canvas.panes)
        n_cols == layout_cfg.cols
        n_rows == (n_panes + n_cols - 1) \div n_cols
        w == OrElse(output_cfg.width, frame_width * n_cols)
        h == OrElse(output_cfg.height, frame_height * n_rows)
    IN  IF layout_cfg.type = "grid"
        THEN [ok |-> TRUE,
              canvas |-> [canvas EXCEPT !.layout = Some(GridLayout(w, h, layout_cfg.cols))],
              err |-> ""]
        ELSE [ok |-> FALSE, canvas |-> canvas,
              err |-> "ValueError: unsupported layout type"]

\* [pane.render(frame, filter_output) for pane in self.panes] from pane i
\* on: done holds the images so far; a raising pane ends the comprehension
RECURSIVE RenderPanes(_, _, _, _, _, _)
RECURSIVE RenderPanesStep(_, _, _, _, _, _, _)
RenderPanes(panes, i, done, frame, filter_output, fs) ==
    IF i > Len(panes)
    THEN [ok |-> TRUE, imgs |-> done, panes |-> panes, err |-> ""]
    ELSE RenderPanesStep(panes, i, done, frame, filter_output, fs,
                         Pane_render(panes[i], frame, filter_output, fs))
RenderPanesStep(panes, i, done, frame, filter_output, fs, r) ==
    IF ~r.ok
    THEN [ok |-> FALSE, imgs |-> done, panes |-> [panes EXCEPT ![i] = r.pane],
          err |-> r.err]
    ELSE RenderPanes([panes EXCEPT ![i] = r.pane], i + 1, Append(done, r.val),
                     frame, filter_output, fs)

\* a call's result val/err, together with the canvas as the call leaves it
CanvasResult(r, canvas) == [ok |-> r.ok, val |-> r.val, canvas |-> canvas, err |-> r.err]

\* the end of Canvas.render: self.layout.arrange(rendered_panes)
render_arrange(canvas, rp) ==
    IF ~rp.ok
    THEN CanvasResult(Raise(rp.err), [canvas EXCEPT !.panes = rp.panes])
    ELSE CanvasResult(GridLayout_arrange(Get(canvas.layout), rp.imgs),
                      [canvas EXCEPT !.panes = rp.panes])

\* Canvas.render after the layout check: render every pane, in order
render_panes(init, frame, filter_output, fs) ==
    IF ~init.ok
    THEN CanvasResult(Raise(init.err), init.canvas)
    ELSE render_arrange(init.canvas,
                        RenderPanes(init.canvas.panes, 1, <<>>, frame, filter_output, fs))

\* Canvas.render deriving the layout anew on every call
Canvas_render_Reinit(canvas, frame, filter_output, fs) ==
    render_panes(Canvas_init_layout(canvas, frame.w, frame.h),
                 frame, filter_output, fs)

\* Canvas.render: initialise the layout if it is None, render every pane,
\* arrange the pane images.  The result carries the canvas as the call
\* leaves it, also when the call raises.
Canvas_render(canvas, frame, filter_output, fs) ==
    IF IsNone(canvas.layout)
    THEN render_panes(Canvas_init_layout(canvas, frame.w, frame.h),
                      frame, filter_output, fs)
    ELSE render_panes([ok |-> TRUE, canvas |-> canvas, err |-> ""],
                      frame, filter_output, fs)

\* -------------------------------------------------------------- video writer
\* VideoWriter.__init__ opening the cv2 writer at once, for an empty size
VideoWriter_init_Eager ==
    [writer |-> Some([opened |-> TRUE, w |-> 0, h |-> 0]), frame_count |-> 0]

\* VideoWriter.__init__: no cv2 writer yet, no frame counted
VideoWriter_init == [writer |-> None, frame_count |-> 0]

\* the output file as the sink leaves it: whether it was created, the frames
\* encoded into it, and how often a cv2 writer on it was released
NoFile == [exists |-> FALSE, frames |-> <<>>, released |-> 0]

\* VideoWriter._ensure_writer without the isOpened() check
VideoWriter_ensure_writer_Unchecked(vw, disk, height, width, sink_opens) ==
    IF ~IsNone(vw.writer)
    THEN [ok |-> TRUE, vw |-> vw, disk |-> disk, err |-> ""]
    ELSE [ok |-> TRUE,
          vw |-> [vw EXCEPT !.writer =
                    Some([opened |-> sink_opens, w |-> width, h |-> height])],
          disk |-> IF sink_opens
                   THEN [disk EXCEPT !.exists = TRUE, !.frames = <<>>]
                   ELSE disk,
          err |-> ""]

\* VideoWriter._ensure_writer: nothing when a cv2 writer is held; else
\* create one for (width, height), keep it, and raise if it did not open.
\* sink_opens is what cv2.VideoWriter.isOpened() answers for the path.
VideoWriter_ensure_writer(vw, disk, height, width, sink_opens) ==
    IF ~IsNone(vw.writer)
    THEN [ok |-> TRUE, vw |-> vw, disk |-> disk, err |-> ""]
    ELSE LET handle == [opened |-> sink_opens, w |-> width, h |-> height]
             held == [vw EXCEPT !.writer = Some(handle)]
         IN  IF ~sink_opens
             THEN [ok |-> FALSE, vw |-> held, disk |-> disk,
                   err |-> "RuntimeError: failed to open video writer"]
             ELSE [ok |-> TRUE, vw |-> held,
                   disk |-> [disk EXCEPT !.exists = TRUE, !.frames = <<>>],
                   err |-> ""]

\* VideoWriter.write_frame encoding the frame without counting it
VideoWriter_write_frame_NoCount(vw, disk, frame, sink_opens) ==
    LET e == VideoWriter_ensure_writer(vw, disk, frame.h, frame.w, sink_opens)
    IN  IF ~e.ok THEN e
        ELSE [ok |-> TRUE, vw |-> e.vw,
              disk |-> [e.disk EXCEPT !.frames = Append(@, frame)], err |-> ""]

\* VideoWriter.write_frame: open lazily from this frame's size, encode the
\* frame, count it.  cv2 drops a frame whose size is not the writer's.
VideoWriter_write_frame(vw, disk, frame, sink_opens) ==
    LET e == VideoWriter_ensure_writer(vw, disk, frame.h, frame.w, sink_opens)
        handle == Get(e.vw.writer)
        stored == IF handle.opened /\ handle.w = frame.w /\ handle.h = frame.h
                  THEN [e.disk EXCEPT !.frames = Append(@, frame)]
                  ELSE e.disk
    IN  IF ~e.ok THEN e
        ELSE [ok |-> TRUE,
              vw |-> [e.vw EXCEPT !.frame_count = @ + 1],
              disk |-> stored, err |-> ""]

\* VideoWriter.close releasing whether or not a cv2 writer is held
VideoWriter_close_AlwaysRelease(vw, disk) ==
    [vw |-> [vw EXCEPT !.writer = None],
     disk |-> [disk EXCEPT !.released = @ + 1]]

\* VideoWriter.close starting the frame count anew
VideoWriter_close_ResetCount(vw, disk) ==
    IF ~IsNone(vw.writer)
    THEN [vw |-> [vw EXCEPT !.writer = None, !.frame_count = 0],
          disk |-> [disk EXCEPT !.released = @ + 1]]
    ELSE [vw |-> vw, disk |-> disk]

\* VideoWriter.close: release the cv2 writer if one is held, and forget it
VideoWriter_close(vw, disk) ==
    IF ~IsNone(vw.writer)
    THEN [vw |-> [vw EXCEPT !.writer = None],
          disk |-> [disk EXCEPT !.released = @ + 1]]
    ELSE [vw |-> vw, disk |-> disk]

\* -------------------------------------------------------------------- filters
\* the keys of _MODEL_REGISTRY
MODEL_REGISTRY == {"dinov1-small", "dinov1-base", "dinov2-small", "dinov2-base"}

\* _FILE_FILTER_EXTENSIONS
FILE_FILTER_EXTENSIONS == {".json", ".jsonl", ".pkl", ".pickle", ".npz", ".pt", ".csv"}
\* Path(model_path).suffix of the identifiers used here
PathSuffix(model_path) ==
    IF model_path = "results.json" THEN ".json"
    ELSE IF model_path = "notes.txt" THEN ".txt"
    ELSE ""
\* _is_file_filter_path: a recognised suffix and a file behind the path
is_file_filter_path(model_path, fs) ==
    /\ PathSuffix(model_path) \in FILE_FILTER_EXTENSIONS
    /\ model_path \in DOMAIN fs
    /\ fs[model_path].exists

\* build_filter accepting every identifier as the pass-through
build_filter_AnyModel(model_path, fs) ==
    [ok |-> TRUE, filter |-> Some([kind |-> "identity", frame_idx |-> 0]), err |-> ""]

\* build_filter: 'identity', an existing results file, a registered model
\* name, or an error
build_filter(model_path, fs) ==
    IF model_path = "identity"
    THEN [ok |-> TRUE, filter |-> Some([kind |-> "identity", frame_idx |-> 0]), err |-> ""]
    ELSE IF is_file_filter_path(model_path, fs)
    THEN [ok |-> TRUE, filter |-> Some([kind |-> "file", frame_idx |-> 0]), err |-> ""]
    ELSE IF model_path \in MODEL_REGISTRY
    THEN [ok |-> TRUE, filter |-> Some([kind |-> "model", frame_idx |-> 0]), err |-> ""]
    ELSE [ok |-> FALSE, filter |-> None, err |-> "ValueError: unsupported model"]

\* the feature tensor a live model computes for a frame: (3, 1, 2) here
ModelFeatures(frame) ==
    [d |-> 3, h |-> 1, w |-> 2,
     v |-> [c \in 1..3, y \in 1..1, x \in 1..2 |-> c * x + frame.px[1, 1][1]]]

\* FileFilter.process_frame, a replay of stored results: one stored output
\* per call, in the order of the frames
FileFilter_process_frame(vid_filter, frame) ==
    [output |-> FilterOutput(vid_filter.frame_idx),
     filter |-> [vid_filter EXCEPT !.frame_idx = @ + 1]]

\* every filter's process_frame returning index 0 and never counting
process_frame_NoCount(vid_filter, frame) ==
    IF vid_filter.kind = "model"
    THEN [output |-> FeatureOutput(0, ModelFeatures(frame)), filter |-> vid_filter]
    ELSE [output |-> FilterOutput(0), filter |-> vid_filter]

\* IdentityFilter.process_frame / DINOv*Filter.process_frame: the output
\* carries the filter's running frame index, which then advances
process_frame(vid_filter, frame) ==
    IF vid_filter.kind = "identity"
    THEN [output |-> FilterOutput(vid_filter.frame_idx),
          filter |-> [vid_filter EXCEPT !.frame_idx = @ + 1]]
    ELSE IF vid_filter.kind = "file"
    THEN FileFilter_process_frame(vid_filter, frame)
    ELSE [output |-> FeatureOutput(vid_filter.frame_idx, ModelFeatures(frame)),
          filter |-> [vid_filter EXCEPT !.frame_idx = @ + 1]]

\* ---------------------------------------------------------------------- state
VARIABLES
    pc,            \* where Pipeline.run stands ("idle" outside a run)
    source,        \* the input video: [exists, opens, frames]
    model_path,    \* Pipeline.model_path
    config_path,   \* the parsed YAML mapping, or None
    config,        \* Pipeline.config = load_config(config_path)
    fs,            \* the basis files on disk, by path
    sink_opens,    \* whether a cv2 writer on the output path opens
    pos,           \* frames the reader has yielded so far
    frame,         \* the frame in flight, or None
    filter_output, \* its filter output, or None
    rendered,      \* its composed frame, or None
    vid_filter,    \* the filter object, or None
    canvas,        \* the Canvas object, or None
    writer,        \* the VideoWriter object, or None
    disk,          \* the output file
    log,           \* the calls made so far, in order
    error,         \* the exception being propagated, or None
    closes,        \* calls of writer.close() so far
    layout,        \* a GridLayout called on its own
    rendered_panes,\* the pane images handed to it
    arranged,      \* what arrange returned, or None
    pane,          \* a Pane (or its one layer) called on its own
    target,        \* the target image handed to that layer
    out            \* what the call returned or raised, or None

vars == <<pc, source, model_path, config_path, config, fs, sink_opens, pos, frame,
          filter_output, rendered, vid_filter, canvas, writer, disk, log, error,
          closes, layout, rendered_panes, arranged, pane, target, out>>

envVars == <<source, model_path, config_path, config, fs, sink_opens>>
gridVars == <<layout, rendered_panes, arranged>>
runVars == <<pc, pos, vid_filter, writer, disk, log, closes>>
layerVars == <<pane, target, out>>

\* --------------------------------------------------------------------- inputs
LayerDict(type, opacity, method, pca_path) ==
    [type |-> type, opacity |-> opacity, method |-> method, pca_path |-> pca_path]
ImageDict == LayerDict(Some("image"), None, None, None)
HalfImageDict == LayerDict(Some("image"), Some(2), None, None)
First3Dict == LayerDict(Some("feature"), None, Some("first3"), None)
PcaNoPathDict == LayerDict(Some("feature"), None, Some("pca"), None)
UnknownDict == LayerDict(Some("nonexistent"), None, None, None)
PaneOf(layers) == [layers |-> layers, label |-> None]
\* n panes of one image layer each
ImagePanes(n) == [i \in 1..n |-> PaneOf(<<ImageDict>>)]

\* pane lists whose construction succeeds
GoodPanes ==
    {ImagePanes(n) : n \in 0..MaxPanes}
    \cup {<<PaneOf(<<ImageDict>>), PaneOf(<<First3Dict>>)>>,
          <<PaneOf(<<>>), PaneOf(<<ImageDict, HalfImageDict>>)>>}
\* pane lists whose construction raises
BadPanes ==
    {<<PaneOf(<<ImageDict>>), PaneOf(<<UnknownDict>>)>>,
     <<PaneOf(<<PcaNoPathDict>>)>>}

OptOf(S) == {None} \cup {Some(x) : x \in S}

RawConfigs(types, cols, sizes, panes) ==
    [layout : [type : types, rows : {None}, cols : cols],
     panes  : panes,
     output : [fps : {None}, codec : {None}, width : sizes, height : sizes]]

\* the configurations a Canvas is exercised with: output sizes unset, the
\* smallest and the largest
CanvasRaws ==
    RawConfigs({None, Some("stack")}, OptOf(1..MaxCols), OptOf({1, MaxOut}), GoodPanes)

\* the configurations a pipeline run is exercised with
PipelineRaws ==
    RawConfigs({None, Some("stack")}, {None, Some(2)}, {None, Some(1)},
               {ImagePanes(0), ImagePanes(2)} \cup BadPanes)

\* frame k (from 1) of an h x w video
VideoFrame(k, h, w) == Uniform(h, w, 40 * k)
Sources ==
    {[exists |-> FALSE, opens |-> FALSE, frames |-> <<>>],
     [exists |-> TRUE, opens |-> FALSE, frames |-> <<>>]}
    \cup {[exists |-> TRUE, opens |-> TRUE,
           frames |-> [k \in 1..n |-> VideoFrame(k, h, w)]] :
            n \in 0..MaxFrames, h \in 1..MaxDim, w \in 1..MaxDim}

\* one well-formed basis file for D = 3
BasisFiles ==
    [p \in {"pca.npz"} |->
       [exists |-> TRUE,
        components |-> Some(<<<<1, 0, 0>>, <<0, 1, 0>>, <<0, 0, 1>>>>),
        mean |-> Some(<<0, 0, 0>>)]]

\* the model identifiers of a run: the pass-through, a registered model, a
\* name nothing recognises, a results path and a path with another suffix
ModelPaths == {"identity", "dinov2-small", "nonexistent-model", "results.json", "notes.txt"}
\* the disk of a run: the basis file, and the two paths as files or not
PipelineFiles ==
    {[p \in {"pca.npz", "results.json", "notes.txt"} |->
        IF p = "pca.npz" THEN BasisFiles["pca.npz"]
        ELSE [exists |-> e, components |-> None, mean |-> None]] : e \in BOOLEAN}

\* --------------------------------------------------------------- Pipeline.run
Init ==
    /\ pc = "start"
    /\ source \in Sources
    /\ model_path \in ModelPaths
    /\ config_path \in OptOf(PipelineRaws)
    /\ config = load_config(config_path)
    /\ fs \in PipelineFiles
    /\ sink_opens \in BOOLEAN
    /\ pos = 0
    /\ frame = None
    /\ filter_output = None
    /\ rendered = None
    /\ vid_filter = None
    /\ canvas = None
    /\ writer = None
    /\ disk = NoFile
    /\ log = <<>>
    /\ error = None
    /\ closes = 0
    /\ layout = GridLayout(1, 1, 1)
    /\ rendered_panes = <<>>
    /\ arranged = None
    /\ pane = Pane(<<>>, None)
    /\ target = Zeros(0, 0)
    /\ out = None

Event(op, k) == [op |-> op, k |-> k]

\* reader = VideoReader(self.video_path)
OpenReader ==
    /\ pc = "start"
    /\ IF ~source.exists
       THEN pc' = "raised" /\ error' = Some("FileNotFoundError: video not found")
       ELSE IF ~source.opens
       THEN pc' = "raised" /\ error' = Some("RuntimeError: failed to open video")
       ELSE pc' = "build_filter" /\ error' = error
    /\ UNCHANGED <<envVars, gridVars, layerVars, pos, frame, filter_output, rendered, vid_filter,
                   canvas, writer, disk, log, closes>>

\* vid_filter = build_filter(self.model_path, ...)
BuildFilter ==
    /\ pc = "build_filter"
    /\ LET b == build_filter(model_path, fs)
       IN  /\ vid_filter' = b.filter
           /\ IF b.ok
              THEN pc' = "build_canvas" /\ error' = error
              ELSE pc' = "raised" /\ error' = Some(b.err)
    /\ UNCHANGED <<envVars, gridVars, layerVars, pos, frame, filter_output, rendered,
                   canvas, writer, disk, log, closes>>

\* canvas = Canvas(self.config)
BuildCanvas ==
    /\ pc = "build_canvas"
    /\ \E c \in {Canvas_init(config)} :
           /\ canvas' = c.canvas
           /\ IF c.ok
              THEN pc' = "make_writer" /\ error' = error
              ELSE pc' = "raised" /\ error' = Some(c.err)
    /\ UNCHANGED <<envVars, gridVars, layerVars, pos, frame, filter_output, rendered,
                   vid_filter, writer, disk, log, closes>>

\* writer = VideoWriter(self.output_path, fps=fps, fourcc=...)
MakeWriter ==
    /\ pc = "make_writer"
    /\ writer' = Some(VideoWriter_init)
    /\ pc' = "next_frame"
    /\ UNCHANGED <<envVars, gridVars, layerVars, pos, frame, filter_output, rendered,
                   vid_filter, canvas, disk, log, error, closes>>

\* ReadFrame yielding the frames last to first
ReadFrame_Reversed ==
    /\ pc = "next_frame"
    /\ IF pos < Len(source.frames)
       THEN /\ frame' = Some(source.frames[Len(source.frames) - pos])
            /\ pos' = pos + 1
            /\ log' = Append(log, Event("read", pos))
            /\ pc' = "process_frame"
       ELSE /\ pc' = "finally"
            /\ UNCHANGED <<frame, pos, log>>
    /\ UNCHANGED <<envVars, gridVars, layerVars, filter_output, rendered, vid_filter, canvas,
                   writer, disk, error, closes>>

\* for frame in reader: the next frame, or the end of the loop
ReadFrame ==
    /\ pc = "next_frame"
    /\ IF pos < Len(source.frames)
       THEN /\ frame' = Some(source.frames[pos + 1])
            /\ pos' = pos + 1
            /\ log' = Append(log, Event("read", pos))
            /\ pc' = "process_frame"
       ELSE /\ pc' = "finally"
            /\ UNCHANGED <<frame, pos, log>>
    /\ UNCHANGED <<envVars, gridVars, layerVars, filter_output, rendered, vid_filter, canvas,
                   writer, disk, error, closes>>

\* filter_output = vid_filter.process_frame(frame)
ProcessFrame ==
    /\ pc = "process_frame"
    /\ LET r == process_frame(Get(vid_filter), Get(frame))
       IN  /\ filter_output' = Some(r.output)
           /\ vid_filter' = Some(r.filter)
    /\ log' = Append(log, Event("process_frame", pos - 1))
    /\ pc' = "render"
    /\ UNCHANGED <<envVars, gridVars, layerVars, pos, frame, rendered, canvas, writer, disk,
                   error, closes>>

\* ProcessFrameRaises with the exception caught inside the loop: the frame
\* is skipped and the loop goes on
ProcessFrameRaises_Suppressed ==
    /\ pc = "process_frame"
    /\ Get(vid_filter).kind = "model"
    /\ log' = Append(log, Event("process_frame", pos - 1))
    /\ pc' = "next_frame"
    /\ UNCHANGED <<envVars, gridVars, layerVars, pos, frame, filter_output, rendered, vid_filter,
                   canvas, writer, disk, closes, error>>

\* the same call when a live model's inference raises
ProcessFrameRaises ==
    /\ pc = "process_frame"
    /\ Get(vid_filter).kind = "model"
    /\ log' = Append(log, Event("process_frame", pos - 1))
    /\ error' = Some("RuntimeError: inference failed")
    /\ pc' = "finally"
    /\ UNCHANGED <<envVars, gridVars, layerVars, pos, frame, filter_output, rendered, vid_filter,
                   canvas, writer, disk, closes>>

\* rendered = canvas.render(frame, filter_output)
Render ==
    /\ pc = "render"
    /\ \E r \in {Canvas_render(Get(canvas), Get(frame), Get(filter_output), fs)} :
           /\ canvas' = Some(r.canvas)
           /\ IF r.ok
              THEN rendered' = Some(r.val) /\ pc' = "write_frame" /\ error' = error
              ELSE rendered' = rendered /\ pc' = "finally" /\ error' = Some(r.err)
    /\ log' = Append(log, Event("render", pos - 1))
    /\ UNCHANGED <<envVars, gridVars, layerVars, pos, frame, filter_output, vid_filter, writer,
                   disk, closes>>

\* writer.write_frame(rendered)
WriteFrame ==
    /\ pc = "write_frame"
    /\ \E r \in {VideoWriter_write_frame(Get(writer), disk, Get(rendered), sink_opens)} :
           /\ writer' = Some(r.vw)
           /\ disk' = r.disk
           /\ IF r.ok
              THEN pc' = "next_frame" /\ error' = error
              ELSE pc' = "finally" /\ error' = Some(r.err)
    /\ log' = Append(log, Event("write_frame", pos - 1))
    /\ UNCHANGED <<envVars, gridVars, layerVars, pos, frame, filter_output, rendered, vid_filter,
                   canvas, closes>>

\* Finally with the close after the loop instead of in a finally clause: an
\* exception leaving the loop skips it
Finally_NoFinally ==
    /\ pc = "finally"
    /\ \E r \in {IF IsNone(error) THEN VideoWriter_close(Get(writer), disk)
                 ELSE [vw |-> Get(writer), disk |-> disk]} :
           /\ writer' = Some(r.vw)
           /\ disk' = r.disk
    /\ closes' = IF IsNone(error) THEN closes + 1 ELSE closes
    /\ log' = IF IsNone(error) THEN Append(log, Event("close", pos)) ELSE log
    /\ pc' = IF IsNone(error) THEN "done" ELSE "raised"
    /\ UNCHANGED <<envVars, gridVars, layerVars, pos, frame, filter_output, rendered, vid_filter,
                   canvas, error>>

\* finally: writer.close(); then run() returns, or the exception goes on
Finally ==
    /\ pc = "finally"
    /\ LET r == VideoWriter_close(Get(writer), disk)
       IN  /\ writer' = Some(r.vw)
           /\ disk' = r.disk
    /\ closes' = closes + 1
    /\ log' = Append(log, Event("close", pos))
    /\ pc' = IF IsNone(error) THEN "done" ELSE "raised"
    /\ UNCHANGED <<envVars, gridVars, layerVars, pos, frame, filter_output, rendered, vid_filter,
                   canvas, error>>

Next ==
    \/ OpenReader
    \/ BuildFilter
    \/ BuildCanvas
    \/ MakeWriter
    \/ ReadFrame
    \/ ProcessFrame
    \/ ProcessFrameRaises
    \/ Render
    \/ WriteFrame
    \/ Finally

Spec == Init /\ [][Next]_vars

\* ------------------------------------------------- a Canvas over many frames
\* the frames a Canvas is handed: the smallest and the largest height and
\* width, one colour
CanvasFrames == {Uniform(h, w, 40) : h \in {1, MaxDim}, w \in {1, MaxDim}}

\* the state after  canvas = Canvas(load_config(...))  for a configuration
\* whose construction succeeds; no pipeline is running
InitCanvas ==
    /\ pc = "idle"
    /\ source = [exists |-> FALSE, opens |-> FALSE, frames |-> <<>>]
    /\ model_path = "identity"
    /\ config_path \in OptOf(CanvasRaws)
    /\ config = load_config(config_path)
    /\ fs = BasisFiles
    /\ sink_opens = TRUE
    /\ pos = 0
    /\ frame = None
    /\ filter_output = None
    /\ rendered = None
    /\ vid_filter = None
    /\ canvas = Canvas_init(config).canvas
    /\ writer = None
    /\ disk = NoFile
    /\ log = <<>>
    /\ error = None
    /\ closes = 0
    /\ layout = GridLayout(1, 1, 1)
    /\ rendered_panes = <<>>
    /\ arranged = None
    /\ pane = Pane(<<>>, None)
    /\ target = Zeros(0, 0)
    /\ out = None

\* canvas.render(f, o) for any frame f and a plain output, a feature output
\* or the empty FeatureOutput(); rendered keeps the last frame composed
RenderCall ==
    /\ pc = "idle"
    /\ \E f \in CanvasFrames :
       \E o \in {FilterOutput(0), FeatureOutput(0, ModelFeatures(f)),
                 FeatureOutput(0, NoFeatures)} :
       \E r \in {Canvas_render(Get(canvas), f, o, fs)} :
           /\ frame' = Some(f)
           /\ filter_output' = Some(o)
           /\ canvas' = Some(r.canvas)
           /\ rendered' = IF r.ok THEN Some(r.val) ELSE rendered
           /\ error' = IF r.ok THEN None ELSE Some(r.err)
    /\ UNCHANGED <<envVars, gridVars, layerVars, runVars>>

NextCanvas == RenderCall

SpecCanvas == InitCanvas /\ [][NextCanvas]_vars

\* ------------------------------------------------- GridLayout.arrange alone
\* pane images as Pane.render returns them for one frame: all of the
\* frame's size; pane i is given the colour 50 * i to tell the panes apart
PaneImages(n, h, w) == [i \in 1..n |-> Uniform(h, w, 50 * i)]

InitGrid ==
    /\ pc = "idle"
    /\ source = [exists |-> FALSE, opens |-> FALSE, frames |-> <<>>]
    /\ model_path = "identity"
    /\ config_path = None
    /\ config = Config
    /\ fs = BasisFiles
    /\ sink_opens = TRUE
    /\ pos = 0
    /\ frame = None
    /\ filter_output = None
    /\ rendered = None
    /\ vid_filter = None
    /\ canvas = None
    /\ writer = None
    /\ disk = NoFile
    /\ log = <<>>
    /\ error = None
    /\ closes = 0
    /\ layout \in {GridLayout(w, h, c) :
                     w \in 1..MaxOut, h \in 1..MaxOut, c \in 1..MaxCols}
    /\ rendered_panes \in {PaneImages(n, h, w) :
                             n \in 0..MaxPanes, h \in 1..MaxDim, w \in 1..MaxDim}
    /\ arranged = None
    /\ pane = Pane(<<>>, None)
    /\ target = Zeros(0, 0)
    /\ out = None

\* arranged = layout.arrange(rendered_panes)
Arrange ==
    /\ pc = "idle"
    /\ arranged = None
    /\ arranged' = Some(GridLayout_arrange(layout, rendered_panes))
    /\ UNCHANGED <<envVars, runVars, layerVars, frame, filter_output, rendered, canvas, error,
                   layout, rendered_panes>>

NextGrid == Arrange

SpecGrid == InitGrid /\ [][NextGrid]_vars

\* ------------------------------------- Pane.render and Layer.render alone
\* the basis files of these calls: a well-formed one and a path with no file
LayerFiles ==
    [p \in {"pca.npz", "missing.npz"} |->
       IF p = "pca.npz" THEN BasisFiles["pca.npz"]
       ELSE [exists |-> FALSE, components |-> None, mean |-> None]]

\* 8-bit sample values: the ends of the range and small ones of both parities
Samples == {0, 1, 2, 255}
\* opacities, in quarters: 0.0, 0.5 and 1.0
Opacities == {0, 2, 4}

\* ImageLayer(opacity) and every FeatureLayer(method, opacity, pca_path)
\* whose construction succeeds
ImageLayers == {LayerObj("image", q, "", None) : q \in Opacities}
FeatureLayers ==
    {r.layer :
       r \in {c \in {FeatureLayer_init(m, q, path) :
                        m \in {"first3", "pca", "nonexistent"}, q \in Opacities,
                        path \in {None, Some("pca.npz"), Some("missing.npz")}} :
                c.ok}}
\* the layers stacked in panes of more than one layer
StackLayers ==
    ImageLayers \cup {FeatureLayer_init("first3", q, None).layer : q \in {2, 4}}
RECURSIVE Stacks(_)
Stacks(n) ==
    IF n = 0 THEN {<<>>}
    ELSE Stacks(n - 1)
         \cup {Append(st, l) : st \in {t \in Stacks(n - 1) : Len(t) = n - 1},
                               l \in StackLayers}
LayerPanes ==
    {Pane(st, None) : st \in Stacks(MaxLayers) \cup {<<l>> : l \in FeatureLayers}}

\* a pane, a frame, a target of the frame's shape (as Pane.render hands its
\* layers) and a filter output of either class
InitLayers ==
    /\ pc = "idle"
    /\ source = [exists |-> FALSE, opens |-> FALSE, frames |-> <<>>]
    /\ model_path = "identity"
    /\ config_path = None
    /\ config = Config
    /\ fs = LayerFiles
    /\ sink_opens = TRUE
    /\ pos = 0
    /\ \E h \in 1..MaxDim, w \in 1..MaxDim, f \in Samples, t \in Samples :
         /\ frame = Some(Uniform(h, w, f))
         /\ target = Uniform(h, w, t)
         /\ filter_output \in {Some(FilterOutput(0)),
                                Some(FeatureOutput(0, ModelFeatures(Uniform(h, w, f)))),
                                Some(FeatureOutput(0, NoFeatures))}
    /\ rendered = None
    /\ vid_filter = None
    /\ canvas = None
    /\ writer = None
    /\ disk = NoFile
    /\ log = <<>>
    /\ error = None
    /\ closes = 0
    /\ layout = GridLayout(1, 1, 1)
    /\ rendered_panes = <<>>
    /\ arranged = None
    /\ pane \in LayerPanes
    /\ out = None

\* pane.layers[i].render(target, frame, filter_output)
LayerRender ==
    /\ pc = "idle"
    /\ out = None
    /\ \E i \in 1..Len(pane.layers) :
       \E r \in {Layer_render(pane.layers[i], target, Get(frame),
                               Get(filter_output), fs)} :
           /\ out' = Some([call |-> "layer", i |-> i, ok |-> r.ok, val |-> r.val,
                            err |-> r.err, obj |-> r.obj])
           /\ pane' = [pane EXCEPT !.layers[i] = r.layer]
    /\ UNCHANGED <<envVars, gridVars, runVars, frame, filter_output, rendered,
                   canvas, error, target>>

\* pane.render(frame, filter_output)
PaneRender ==
    /\ pc = "idle"
    /\ out = None
    /\ \E r \in {Pane_render(pane, Get(frame), Get(filter_output), fs)} :
           /\ out' = Some([call |-> "pane", i |-> 0, ok |-> r.ok, val |-> r.val,
                            err |-> r.err])
           /\ pane' = r.pane
    /\ UNCHANGED <<envVars, gridVars, runVars, frame, filter_output, rendered,
                   canvas, error, target>>

NextLayers == LayerRender \/ PaneRender

SpecLayers == InitLayers /\ [][NextLayers]_vars

\* ------------------------------------------------------ Canvas construction
\* layer definitions: the type absent, registered or not; the method and
\* the basis path absent or given, with or without a file behind the path
BuildDicts ==
    {LayerDict(t, None, mp[1], mp[2]) :
       t \in {None, Some("image"), Some("feature"), Some("nonexistent")},
       mp \in {<<None, None>>, <<Some("first3"), None>>, <<Some("pca"), None>>,
               <<Some("pca"), Some("pca.npz")>>, <<Some("pca"), Some("missing.npz")>>}}
    \cup {HalfImageDict}
RECURSIVE DictLists(_)
DictLists(n) ==
    IF n = 0 THEN {<<>>}
    ELSE DictLists(n - 1)
         \cup {Append(ls, d) : ls \in {l \in DictLists(n - 1) : Len(l) = n - 1},
                               d \in BuildDicts}
\* one pane of up to MaxLayers definitions, alone or after an image pane
BuildRaws ==
    RawConfigs({None}, {None}, {None},
               {<<PaneOf(ls)>> : ls \in DictLists(MaxLayers)}
               \cup {<<PaneOf(<<ImageDict>>), PaneOf(ls)>> : ls \in DictLists(MaxLayers)})

\* a loaded configuration, before  Canvas(config)  is called
InitBuild ==
    /\ pc = "idle"
    /\ source = [exists |-> FALSE, opens |-> FALSE, frames |-> <<>>]
    /\ model_path = "identity"
    /\ config_path \in {Some(raw) : raw \in BuildRaws}
    /\ config = load_config(config_path)
    /\ fs = LayerFiles
    /\ sink_opens = TRUE
    /\ pos = 0
    /\ frame = None
    /\ filter_output = None
    /\ rendered = None
    /\ vid_filter = None
    /\ canvas = None
    /\ writer = None
    /\ disk = NoFile
    /\ log = <<>>
    /\ error = None
    /\ closes = 0
    /\ layout = GridLayout(1, 1, 1)
    /\ rendered_panes = <<>>
    /\ arranged = None
    /\ pane = Pane(<<>>, None)
    /\ target = Zeros(0, 0)
    /\ out = None

\* canvas = Canvas(config): a Canvas, or the exception of the first layer
\* definition that raises, with what its message names
Construct ==
    /\ pc = "idle"
    /\ out = None
    /\ \E c \in {Canvas_init(config)} :
           /\ canvas' = c.canvas
           /\ out' = Some([call |-> "Canvas", ok |-> c.ok, err |-> c.err,
                            offending |-> c.offending, known |-> c.known])
           /\ error' = IF c.ok THEN None ELSE Some(c.err)
    /\ UNCHANGED <<envVars, gridVars, runVars, frame, filter_output, rendered,
                   pane, target>>

\* the first canvas.render(f, o) on the Canvas constructed
RenderBuilt ==
    /\ pc = "idle"
    /\ ~IsNone(canvas)
    /\ IsNone(frame)
    /\ \E f \in {Uniform(1, 2, 40)} :
       \E o \in {FilterOutput(0), FeatureOutput(0, ModelFeatures(f))} :
       \E r \in {Canvas_render(Get(canvas), f, o, fs)} :
           /\ frame' = Some(f)
           /\ filter_output' = Some(o)
           /\ canvas' = Some(r.canvas)
           /\ rendered' = IF r.ok THEN Some(r.val) ELSE rendered
           /\ error' = IF r.ok THEN None ELSE Some(r.err)
    /\ UNCHANGED <<envVars, gridVars, runVars, layerVars>>

NextBuild == Construct \/ RenderBuilt

SpecBuild == InitBuild /\ [][NextBuild]_vars

\* ------------------------------------------------------ a VideoWriter alone
\* writer = VideoWriter(path): no call made yet; the path's cv2 writer
\* opens or not
InitWriter ==
    /\ pc = "idle"
    /\ source = [exists |-> FALSE, opens |-> FALSE, frames |-> <<>>]
    /\ model_path = "identity"
    /\ config_path = None
    /\ config = Config
    /\ fs = BasisFiles
    /\ sink_opens \in BOOLEAN
    /\ pos = 0
    /\ frame = None
    /\ filter_output = None
    /\ rendered = None
    /\ vid_filter = None
    /\ canvas = None
    /\ writer = Some(VideoWriter_init)
    /\ disk = NoFile
    /\ log = <<>>
    /\ error = None
    /\ closes = 0
    /\ layout = GridLayout(1, 1, 1)
    /\ rendered_panes = <<>>
    /\ arranged = None
    /\ pane = Pane(<<>>, None)
    /\ target = Zeros(0, 0)
    /\ out = None

\* writer.write_frame(f) for a frame of any size; error holds what the call
\* raised
WriteCall ==
    /\ pc = "idle"
    /\ Len(log) < MaxCalls
    /\ \E f \in CanvasFrames :
       \E r \in {VideoWriter_write_frame(Get(writer), disk, f, sink_opens)} :
           /\ frame' = Some(f)
           /\ writer' = Some(r.vw)
           /\ disk' = r.disk
           /\ error' = IF r.ok THEN None ELSE Some(r.err)
    /\ log' = Append(log, Event("write_frame", Len(log)))
    /\ UNCHANGED <<envVars, gridVars, layerVars, pc, pos, filter_output, rendered,
                   vid_filter, canvas, closes>>

\* writer.close()
CloseCall ==
    /\ pc = "idle"
    /\ Len(log) < MaxCalls
    /\ \E r \in {VideoWriter_close(Get(writer), disk)} :
           /\ writer' = Some(r.vw)
           /\ disk' = r.disk
    /\ error' = None
    /\ closes' = closes + 1
    /\ log' = Append(log, Event("close", Len(log)))
    /\ UNCHANGED <<envVars, gridVars, layerVars, pc, pos, frame, filter_output,
                   rendered, vid_filter, canvas>>

NextWriter == WriteCall \/ CloseCall

SpecWriter == InitWriter /\ [][NextWriter]_vars

\* ------------------------------------------------- _reduce_first3 alone
\* feature values: 1 lies a third of the way from 0 to 3
FeatureValues == {0, 1, 3}
\* every (d, h, w) tensor over the feature values
Tensors(d, h, w) ==
    {[d |-> d, h |-> h, w |-> w, v |-> v] :
       v \in [(1..d) \X (1..h) \X (1..w) -> FeatureValues]}
\* the tensors handed to the reduction: three channels of one row, four
\* channels, too few channels, and the empty default
ReduceInputs ==
    Tensors(3, 1, MaxDim) \cup Tensors(4, 1, 1) \cup Tensors(2, 1, 1) \cup {NoFeatures}

\* a FeatureLayer(method='first3') and a feature tensor, before the call
InitReduce ==
    /\ pc = "idle"
    /\ source = [exists |-> FALSE, opens |-> FALSE, frames |-> <<>>]
    /\ model_path = "identity"
    /\ config_path = None
    /\ config = Config
    /\ fs = LayerFiles
    /\ sink_opens = TRUE
    /\ pos = 0
    /\ frame = None
    /\ filter_output \in {Some(FeatureOutput(0, t)) : t \in ReduceInputs}
    /\ rendered = None
    /\ vid_filter = None
    /\ canvas = None
    /\ writer = None
    /\ disk = NoFile
    /\ log = <<>>
    /\ error = None
    /\ closes = 0
    /\ layout = GridLayout(1, 1, 1)
    /\ rendered_panes = <<>>
    /\ arranged = None
    /\ pane = Pane(<<FeatureLayer_init("first3", 4, None).layer>>, None)
    /\ target = Zeros(0, 0)
    /\ out = None

\* layer._reduce_first3(features)
ReduceFirst3 ==
    /\ pc = "idle"
    /\ out = None
    /\ \E r \in {reduce_first3(Get(filter_output).features)} :
           out' = Some([call |-> "reduce_first3", i |-> 1, ok |-> r.ok,
                        val |-> r.val, err |-> r.err])
    /\ UNCHANGED <<envVars, gridVars, runVars, frame, filter_output, rendered,
                   canvas, error, pane, target>>

NextReduce == ReduceFirst3

SpecReduce == InitReduce /\ [][NextReduce]_vars

\* --------------------------------------- a 'pca' FeatureLayer over many calls
\* what may lie behind the layer's basis path: a well-formed file, another
\* well-formed file, a file without 'mean', a file without 'components', no
\* file
BasisVariants ==
    {BasisFiles["pca.npz"],
     [exists |-> TRUE,
      components |-> Some(<<<<0, 1, 0>>, <<1, 0, 0>>, <<0, 0, 1>>>>),
      mean |-> Some(<<1, 0, 0>>)],
     [exists |-> TRUE,
      components |-> Some(<<<<1, 0, 0>>, <<0, 1, 0>>, <<0, 0, 1>>>>),
      mean |-> None],
     [exists |-> TRUE, components |-> None, mean |-> Some(<<0, 0, 0>>)],
     [exists |-> FALSE, components |-> None, mean |-> None]}
PcaFiles == {[p \in {"pca.npz"} |-> b] : b \in BasisVariants}

\* layer = FeatureLayer(method='pca', pca_path='pca.npz'), a frame and a
\* target of its shape; no call made yet
InitPca ==
    /\ pc = "idle"
    /\ source = [exists |-> FALSE, opens |-> FALSE, frames |-> <<>>]
    /\ model_path = "identity"
    /\ config_path = None
    /\ config = Config
    /\ fs \in PcaFiles
    /\ sink_opens = TRUE
    /\ pos = 0
    /\ frame = Some(Uniform(1, 2, 40))
    /\ filter_output = None
    /\ rendered = None
    /\ vid_filter = None
    /\ canvas = None
    /\ writer = None
    /\ disk = NoFile
    /\ log = <<>>
    /\ error = None
    /\ closes = 0
    /\ layout = GridLayout(1, 1, 1)
    /\ rendered_panes = <<>>
    /\ arranged = None
    /\ pane \in {Pane(<<FeatureLayer_init("pca", q, Some("pca.npz")).layer>>, None) :
                   q \in {2, 4}}
    /\ target = Zeros(1, 2)
    /\ out = None

\* layer.render(target, frame, o) with a plain output or a feature output;
\* pos counts the calls, error holds what the call raised
PcaRender ==
    /\ pc = "idle"
    /\ pos < MaxCalls
    /\ \E o \in {FilterOutput(pos), FeatureOutput(pos, ModelFeatures(Get(frame)))} :
       \E r \in {Layer_render(pane.layers[1], target, Get(frame), o, fs)} :
           /\ filter_output' = Some(o)
           /\ out' = Some([call |-> "layer", i |-> 1, ok |-> r.ok, val |-> r.val,
                            err |-> r.err, obj |-> r.obj])
           /\ pane' = [pane EXCEPT !.layers[1] = r.layer]
           /\ error' = IF r.ok THEN None ELSE Some(r.err)
    /\ pos' = pos + 1
    /\ UNCHANGED <<source, model_path, config_path, config, fs, sink_opens, gridVars,
                   pc, vid_filter, writer, disk, log, closes, frame, rendered,
                   canvas, target>>

\* between two calls the file behind the basis path is replaced or removed
RewriteBasis ==
    /\ pc = "idle"
    /\ \E f \in PcaFiles : f # fs /\ fs' = f
    /\ UNCHANGED <<source, model_path, config_path, config, sink_opens, gridVars,
                   layerVars, runVars, frame, filter_output, rendered, canvas, error>>

NextPca == PcaRender \/ RewriteBasis

SpecPca == InitPca /\ [][NextPca]_vars

\* ------------------------------------ a Canvas with a 'pca' layer in a pane
PcaDict == LayerDict(Some("feature"), None, Some("pca"), Some("pca.npz"))
\* configurations with a supported and an unsupported layout type, whose
\* panes hold a layer that keeps state from one render to the next
StackRaws ==
    RawConfigs({None, Some("grid"), Some("stack")}, OptOf({1, 2}), {None, Some(MaxOut)},
               {<<PaneOf(<<PcaDict>>)>>,
                <<PaneOf(<<ImageDict>>), PaneOf(<<ImageDict, PcaDict>>)>>})

\* the state after  canvas = Canvas(load_config(...))
InitStack ==
    /\ pc = "idle"
    /\ source = [exists |-> FALSE, opens |-> FALSE, frames |-> <<>>]
    /\ model_path = "identity"
    /\ config_path \in {Some(raw) : raw \in StackRaws}
    /\ config = load_config(config_path)
    /\ fs = BasisFiles
    /\ sink_opens = TRUE
    /\ pos = 0
    /\ frame = None
    /\ filter_output = None
    /\ rendered = None
    /\ vid_filter = None
    /\ canvas = Canvas_init(config).canvas
    /\ writer = None
    /\ disk = NoFile
    /\ log = <<>>
    /\ error = None
    /\ closes = 0
    /\ layout = GridLayout(1, 1, 1)
    /\ rendered_panes = <<>>
    /\ arranged = None
    /\ pane = Pane(<<>>, None)
    /\ target = Zeros(0, 0)
    /\ out = None

SpecStack == InitStack /\ [][NextCanvas]_vars

\* ----------------------------------- Pipeline.run over frames of mixed sizes
\* a source whose odd and even frames have sizes of their own
MixedSources ==
    {[exists |-> TRUE, opens |-> TRUE,
      frames |-> [k \in 1..MaxFrames |->
                    IF k % 2 = 1 THEN VideoFrame(k, h1, w1) ELSE VideoFrame(k, h2, w2)]] :
       h1 \in 1..MaxDim, w1 \in 1..MaxDim, h2 \in 1..MaxDim, w2 \in 1..MaxDim}
\* configurations of one and of two panes, sized by the frame or by the file
MixedRaws ==
    RawConfigs({None}, {None, Some(2)}, {None, Some(1)},
               {ImagePanes(2), <<PaneOf(<<ImageDict, HalfImageDict>>)>>})

InitMixed ==
    /\ pc = "start"
    /\ source \in MixedSources
    /\ model_path \in {"identity", "dinov2-small"}
    /\ config_path \in OptOf(MixedRaws)
    /\ config = load_config(config_path)
    /\ fs \in PipelineFiles
    /\ sink_opens \in BOOLEAN
    /\ pos = 0
    /\ frame = None
    /\ filter_output = None
    /\ rendered = None
    /\ vid_filter = None
    /\ canvas = None
    /\ writer = None
    /\ disk = NoFile
    /\ log = <<>>
    /\ error = None
    /\ closes = 0
    /\ layout = GridLayout(1, 1, 1)
    /\ rendered_panes = <<>>
    /\ arranged = None
    /\ pane = Pane(<<>>, None)
    /\ target = Zeros(0, 0)
    /\ out = None

SpecMixed == InitMixed /\ [][Next]_vars

\* ===================================================================== claims
\* how often op was called so far
Count(op) == Cardinality({i \in 1..Len(log) : log[i].op = op})
\* the try block of Pipeline.run has been entered
LoopEntered == ~IsNone(writer)
Returned == pc \in {"done", "raised"}
SinkOpenError == Some("RuntimeError: failed to open video writer")
LayoutTypeError == Some("ValueError: unsupported layout type")

\* C1: once the frame loop has been entered, writer.close() is called
\* exactly once before run() returns or propagates an error, whatever ended
\* the loop: never while the loop runs, never twice, and as the last call.
C1_CloseExactlyOnce ==
    /\ closes <= 1
    /\ disk.released <= 1
    /\ pc \in {"next_frame", "process_frame", "render", "write_frame", "finally"}
         => closes = 0
    /\ (Returned /\ LoopEntered)
         => /\ closes = 1
            /\ log[Len(log)].op = "close"
            /\ IsNone(Get(writer).writer)
\* a run that wrote a frame and then ended on an exception, closed once
C1_Witness ==
    /\ pc = "raised"
    /\ closes = 1
    /\ Len(disk.frames) >= 1

\* the stages of one iteration of the loop, in order
StageOps == <<"read", "process_frame", "render", "write_frame">>

\* C2: the calls are read k, process_frame k, render k, write_frame k for
\* k = 0, 1, ... in that order, with close last; the next frame is read only
\* when every frame read so far has been written; the frames in the output
\* are in source order (with the default configuration they are the source
\* frames themselves).
C2_StagesInOrder ==
    /\ \A i \in 1..Len(log) :
         IF log[i].op = "close"
         THEN i = Len(log)
         ELSE log[i] = Event(StageOps[((i - 1) % 4) + 1], (i - 1) \div 4)
    /\ pc = "next_frame"
         => /\ Count("write_frame") = pos
            /\ Get(writer).frame_count = pos
    /\ LoopEntered => Len(disk.frames) <= Get(writer).frame_count
    /\ (IsNone(config_path) /\ LoopEntered)
         => disk.frames = SubSeq(source.frames, 1, Len(disk.frames))
\* a completed run of two frames of different content
C2_Witness ==
    /\ pc = "done"
    /\ IsNone(config_path)
    /\ Len(disk.frames) = 2
    /\ disk.frames[1] # disk.frames[2]

\* C3 as stated: when the sink-open failure is raised, no process_frame call
\* and no canvas.render call has happened.
C3_Original ==
    error = SinkOpenError => (Count("process_frame") = 0 /\ Count("render") = 0)

\* C3 amended: the sink is opened by the first write_frame, so a sink that
\* cannot be opened fails the run there: after exactly one process_frame and
\* one canvas.render call (frame 0), with no frame written and no output
\* file; no run gets past its first frame with such a sink, and a run over
\* an empty source never tries to open it.
C3_SinkFailsAtFirstWrite ==
    /\ error = SinkOpenError
         => /\ Count("process_frame") = 1
            /\ Count("render") = 1
            /\ Count("write_frame") = 1
            /\ pos = 1
            /\ disk.frames = <<>>
            /\ ~disk.exists
    /\ ~sink_opens
         => /\ pos <= 1
            /\ ~disk.exists
            /\ (pc = "next_frame" => pos = 0)
            /\ (pc = "done" => Len(source.frames) = 0)
\* the run has propagated the sink-open failure
C3_Witness ==
    /\ pc = "raised"
    /\ error = SinkOpenError
    /\ closes = 1

\* C4: when the unknown-layout-type error is raised, no process_frame call
\* has happened and no Canvas has been constructed (the error comes from
\* Canvas construction).
C4_RaisedAtConstruction ==
    error = LayoutTypeError => (Count("process_frame") = 0 /\ IsNone(canvas))

\* the Canvas under test, its layout and its pane count
TheCanvas == Get(canvas)
NPanes == Len(TheCanvas.panes)
HasLayout == ~IsNone(canvas) /\ ~IsNone(TheCanvas.layout)
TheLayout == Get(TheCanvas.layout)
\* the least r with r * c >= p
CeilDiv(p, c) == CHOOSE r \in 0..p : r * c >= p /\ (r - 1) * c < p
SizeUnset == IsNone(config.output.width) /\ IsNone(config.output.height)
ColsUnset == IsNone(config_path) \/ IsNone(Get(config_path).layout.cols)
\* the layout is the one a first render of a frame of size (w, h) derives
\* when no output size is configured
DerivedFrom(lay, w, h) ==
    /\ lay.width = w * lay.n_cols
    /\ lay.height = h * CeilDiv(NPanes, lay.n_cols)

\* C5 as stated: the layout is None until the first render call, the first
\* successful render sets it from that frame's width and height, and once
\* set it never changes.
C5_Original ==
    /\ [](IsNone(frame) => IsNone(TheCanvas.layout))
    /\ [][/\ ~IsNone(TheCanvas.layout) => Get(canvas').layout = TheCanvas.layout
          /\ (IsNone(rendered) /\ ~IsNone(rendered') /\ SizeUnset)
               => DerivedFrom(Get(Get(canvas').layout), Get(frame').w, Get(frame').h)
         ]_vars

\* C5 amended: the layout is None until the first render call; the first
\* render call whose layout initialisation succeeds sets it from that
\* call's frame, whether or not the rest of that call then raises, so a
\* frame is only ever composed with a layout in place; once set, the layout
\* object, its width, height and column count never change, whatever the
\* size of later frames.
C5_LayoutSetOnce ==
    /\ [](IsNone(frame) => IsNone(TheCanvas.layout))
    /\ [](~IsNone(rendered) => ~IsNone(TheCanvas.layout))
    /\ [][/\ ~IsNone(TheCanvas.layout) => Get(canvas').layout = TheCanvas.layout
          /\ (IsNone(TheCanvas.layout) /\ ~IsNone(Get(canvas').layout) /\ SizeUnset)
               => DerivedFrom(Get(Get(canvas').layout), Get(frame').w, Get(frame').h)
         ]_vars
\* a frame was composed under a layout that a frame of another size set
C5_Witness ==
    /\ HasLayout
    /\ ~IsNone(rendered)
    /\ IsNone(error)
    /\ SizeUnset
    /\ ~DerivedFrom(TheLayout, Get(frame).w, Get(frame).h)

\* C6 as stated: with no column count configured, the layout has 2 columns
\* if the Canvas has more than one pane and 1 otherwise.
C6_Original ==
    (ColsUnset /\ HasLayout)
      => TheLayout.n_cols = (IF NPanes > 1 THEN 2 ELSE 1)

\* C6 amended: with no column count configured, the column count used for
\* layout initialisation is 1 (the default of LayoutConfig.cols), whatever
\* the pane count.
C6_DefaultOneColumn ==
    ColsUnset
      => /\ config.layout.cols = 1
         /\ HasLayout => TheLayout.n_cols = 1
\* a layout derived for three panes with no column count configured
C6_Witness ==
    /\ ColsUnset
    /\ HasLayout
    /\ NPanes = 3
    /\ ~IsNone(rendered)

C8_NativeResolution ==
    (HasLayout /\ ~IsNone(frame) /\ IsNone(error) /\ SizeUnset
       /\ DerivedFrom(TheLayout, Get(frame).w, Get(frame).h))
      => IF NPanes = 1
         THEN Get(rendered).w = Get(frame).w /\ Get(rendered).h = Get(frame).h
         ELSE /\ grid_cell_w(TheLayout) = Get(frame).w
              /\ grid_cell_h(TheLayout, NPanes) = Get(frame).h

\* the GridLayout.arrange call under test
NIn == Len(rendered_panes)
Result == Get(arranged)
HasShape(img, h, w) == img.h = h /\ img.w = w /\ DOMAIN img.px = (1..h) \X (1..w)
\* every cell of the grid holds at least one pixel
CellsNonEmpty ==
    /\ layout.width >= layout.n_cols
    /\ layout.height >= CeilDiv(NIn, layout.n_cols)

\* C9 as stated: for every pane count, column count and positive size,
\* arrange returns an image of exactly (height, width, 3).
C9_Original ==
    ~IsNone(arranged)
      => Result.ok /\ HasShape(Result.val, layout.height, layout.width)

\* C9 amended: arrange returns an image of exactly (height, width, 3) for
\* 0 or 1 panes, and for more panes when the grid has no empty cell
\* (width >= cols and height >= ceil(n / cols)); with an empty cell the
\* resize of the first pane raises.
C9_ShapeUnlessEmptyCell ==
    ~IsNone(arranged)
      => IF NIn <= 1 \/ CellsNonEmpty
         THEN Result.ok /\ HasShape(Result.val, layout.height, layout.width)
         ELSE ~Result.ok /\ Result.err = "cv2.error"
\* three panes arranged in two columns of an output that leaves a remainder
C9_Witness ==
    /\ ~IsNone(arranged)
    /\ Result.ok
    /\ NIn = 3
    /\ layout.n_cols = 2
    /\ layout.width = 3
    /\ layout.height # layout.width

\* C10: one pane image is returned resized to the whole (width, height):
\* every pixel of the output shows the pane, there is no background, and
\* the result is the same for every column count.
C10_SinglePaneFills ==
    (~IsNone(arranged) /\ NIn = 1)
      => /\ Result.ok
         /\ HasShape(Result.val, layout.height, layout.width)
         /\ \A y \in 1..layout.height, x \in 1..layout.width :
              Result.val.px[y, x] = rendered_panes[1].px[1, 1]
         /\ \A c \in 1..MaxCols :
              GridLayout_arrange([layout EXCEPT !.n_cols = c], rendered_panes) = Result
\* one pane, several columns, an output larger than the pane
C10_Witness ==
    /\ ~IsNone(arranged)
    /\ NIn = 1
    /\ Result.ok
    /\ layout.n_cols >= 2
    /\ layout.width > rendered_panes[1].w
    /\ layout.height > rendered_panes[1].h

\* the grid of the arrange call under test, computed from its definition
CellW == layout.width \div layout.n_cols
CellH == layout.height \div CeilDiv(NIn, layout.n_cols)
\* the output pixels (y, x), 1-based, of the rectangle of pane i (0-based)
\* whose top-left corner is ((i % cols) * cell_w, (i \div cols) * cell_h)
RectOf(i) ==
    {<<(i \div layout.n_cols) * CellH + dy, (i % layout.n_cols) * CellW + dx>> :
       dy \in 1..CellH, dx \in 1..CellW}

\* C11: whenever arrange returns for n > 1 panes, pane i (resized to the
\* cell) fills the rectangle with top-left corner
\* ((i % cols) * cell_w, (i \div cols) * cell_h); every rectangle lies inside
\* the output, rectangles of distinct panes are disjoint, and every pixel
\* outside all rectangles is zero; with no pane the whole frame is zero.
C11_GridPlacement ==
    (~IsNone(arranged) /\ Result.ok)
      => /\ NIn = 0 => \A p \in DOMAIN Result.val.px : Result.val.px[p] = Black
         /\ NIn > 1
              => /\ \A i \in 0..(NIn - 1) :
                      /\ RectOf(i) \subseteq (1..layout.height) \X (1..layout.width)
                      /\ RectOf(i) # {}
                      /\ \A p \in RectOf(i) :
                           Result.val.px[p] = rendered_panes[i + 1].px[1, 1]
                 /\ \A i, j \in 0..(NIn - 1) :
                      i # j => RectOf(i) \cap RectOf(j) = {}
                 /\ \A p \in DOMAIN Result.val.px :
                      (\A i \in 0..(NIn - 1) : p \notin RectOf(i))
                        => Result.val.px[p] = Black
\* three panes in two columns of a 3 x 3 output: a remainder column, a
\* remainder row and an unused cell
C11_Witness ==
    /\ ~IsNone(arranged)
    /\ Result.ok
    /\ NIn = 3
    /\ layout.n_cols = 2
    /\ layout.width = 3
    /\ layout.height = 3
    /\ Result.val.px[2, 2] = Black
    /\ Result.val.px[3, 3] = Black

\* the Pane.render or Layer.render call under test
PaneCalled == ~IsNone(out) /\ Get(out).call = "pane"
LayerCalled == ~IsNone(out) /\ Get(out).call = "layer"
TheOut == Get(out)
TheFrame == Get(frame)
TheOutput == Get(filter_output)
TheLayer == pane.layers[TheOut.i]
\* what the first n layers of the stack leave, layer n applied last to what
\* the n - 1 layers below it left over the all-zero image
RECURSIVE Below(_)
OnTop(n, prev) ==
    IF ~prev.ok THEN prev
    ELSE Layer_render(pane.layers[n], prev.val, TheFrame, TheOutput, fs)
Below(n) ==
    IF n = 0 THEN Ok(Zeros(TheFrame.h, TheFrame.w)) ELSE OnTop(n, Below(n - 1))
SameOutcome(a, b) == a.ok = b.ok /\ a.val = b.val /\ a.err = b.err

\* C12: Pane.render starts from the all-zero image of the frame's height
\* and width and applies the layers bottom to top, each result being the
\* next layer's target; no layer gives the all-zero image of frame shape,
\* one full-opacity ImageLayer gives an image equal to the frame.
C12_PaneStack ==
    PaneCalled
      => /\ SameOutcome(TheOut, Below(Len(pane.layers)))
         /\ Len(pane.layers) = 0
              => TheOut.ok /\ TheOut.val = Zeros(TheFrame.h, TheFrame.w)
         /\ pane.layers = <<LayerObj("image", 4, "", None)>>
              => TheOut.ok /\ TheOut.val = TheFrame
\* a feature layer under a half-opacity image layer, rendered from features
C12_Witness ==
    /\ PaneCalled
    /\ TheOut.ok
    /\ Len(pane.layers) = 2
    /\ pane.layers[1].kind = "feature"
    /\ pane.layers[2] = LayerObj("image", 2, "", None)
    /\ TheOutput.cls = "FeatureOutput"
    /\ TheOut.val # TheFrame
    /\ TheOut.val # Zeros(TheFrame.h, TheFrame.w)

\* C13: for a frame and a target of one shape, ImageLayer.render with
\* opacity 1.0 returns an image equal in value to the frame that is a new
\* array, not the frame object, whatever the target holds; with opacity 0.0
\* it returns an image equal in value to the target, whatever the frame
\* holds.
C13_ImageLayerEnds ==
    (LayerCalled /\ TheLayer.kind = "image")
      => /\ TheLayer.opacity = 4
              => /\ TheOut.ok
                 /\ TheOut.val = TheFrame
                 /\ TheOut.obj = "fresh"
         /\ TheLayer.opacity = 0
              => /\ TheOut.ok
                 /\ TheOut.val = target
\* a full-opacity image layer rendered over a target unlike the frame
C13_Witness ==
    /\ LayerCalled
    /\ TheLayer = LayerObj("image", 4, "", None)
    /\ target # TheFrame
    /\ target # Zeros(TheFrame.h, TheFrame.w)
    /\ TheOut.val = TheFrame

\* n / 2 rounded to the nearest integer, a half going to the even neighbour
\* (numpy's rounding)
RoundHalf(n) ==
    IF n % 2 = 0 THEN n \div 2
    ELSE IF (n \div 2) % 2 = 0 THEN n \div 2 ELSE (n \div 2) + 1
\* the call returned an image of the frame's shape
ReturnedImage ==
    TheOut.ok /\ DOMAIN TheOut.val.px = DOMAIN TheFrame.px
\* target sample plus frame sample, at pixel p and channel c
SampleSum(p, c) == target.px[p][c] + TheFrame.px[p][c]
HalfImageCalled ==
    LayerCalled /\ TheLayer.kind = "image" /\ TheLayer.opacity = 2

\* C14 as stated: ImageLayer.render with opacity 0.5 returns
\* round(t * 0.5 + f * 0.5) for every target sample t and frame sample f.
C14_Original ==
    HalfImageCalled
      => /\ ReturnedImage
         /\ \A p \in DOMAIN TheFrame.px : \A c \in 1..3 :
              TheOut.val.px[p][c] = RoundHalf(SampleSum(p, c))

\* C14 amended: ImageLayer.render with opacity 0.5 returns t * 0.5 + f * 0.5
\* truncated towards zero, i.e. floor((t + f) / 2), for every 8-bit target
\* sample t and frame sample f; this is the rounded value when t + f is
\* even and its lower neighbour when t + f is odd.
C14_HalfBlendTruncates ==
    HalfImageCalled
      => /\ ReturnedImage
         /\ \A p \in DOMAIN TheFrame.px : \A c \in 1..3 :
              TheOut.val.px[p][c] = SampleSum(p, c) \div 2
\* a half-opacity blend of samples 1 and 2: 1.5 becomes 1
C14_Witness ==
    /\ HalfImageCalled
    /\ target.px[1, 1][1] = 1
    /\ TheFrame.px[1, 1][1] = 2
    /\ TheOut.val.px[1, 1][1] = 1

\* C15: FeatureLayer.render given an output that is not a FeatureOutput
\* does not raise and returns the target itself, unchanged, for every
\* method (a supported one or not), opacity and basis path (with or without
\* a file); the layer's PCA cache is still empty afterwards.
C15_NonFeaturePassThrough ==
    (LayerCalled /\ TheLayer.kind = "feature" /\ TheOutput.cls # "FeatureOutput")
      => /\ TheOut.ok
         /\ TheOut.val = target
         /\ TheOut.obj = "target"
         /\ TheOut.err = ""
         /\ IsNone(TheLayer.pca_components)
         /\ IsNone(TheLayer.pca_mean)
\* a full-opacity pca layer with a basis file, handed a plain FilterOutput
C15_Witness ==
    /\ LayerCalled
    /\ TheLayer.kind = "feature"
    /\ TheLayer.method = "pca"
    /\ TheLayer.pca_path = Some("pca.npz")
    /\ TheLayer.opacity = 4
    /\ TheOutput.cls = "FilterOutput"
    /\ TheOut.ok
    /\ target # TheFrame

\* the Canvas construction under test and the layer definitions of its
\* configuration, by (pane, layer) position, in construction order
Constructed == ~IsNone(out) /\ Get(out).call = "Canvas"
Defs == {<<i, j>> : i \in 1..Len(config.panes), j \in 1..MaxLayers}
Places == {a \in Defs : a[2] <= Len(config.panes[a[1]].layers)}
DefAt(a) == config.panes[a[1]].layers[a[2]]
Precedes(b, a) == b[1] < a[1] \/ (b[1] = a[1] /\ b[2] < a[2])
UnknownType(d) == ~IsNone(d.type) /\ Get(d.type) \notin {"image", "feature"}
PcaNoPath(d) ==
    d.type = Some("feature") /\ d.method = Some("pca") /\ IsNone(d.pca_path)
\* the definition's own constructor call returns: ImageLayer takes an
\* opacity only, FeatureLayer anything but 'pca' without a path
Builds(d) ==
    IF IsNone(d.type) \/ d.type = Some("image")
    THEN IsNone(d.method) /\ IsNone(d.pca_path)
    ELSE d.type = Some("feature") /\ ~PcaNoPath(d)
\* a is the first definition that does not build
FirstFailure(a) == ~Builds(DefAt(a)) /\ \A b \in Places : Precedes(b, a) => Builds(DefAt(b))

\* C16: a layer definition whose type is no key of the registry makes
\* Canvas construction fail and leaves the caller no Canvas, so nothing is
\* ever rendered; when it is the first definition that fails, the error is
\* the unknown-layer-type ValueError naming that type value and listing the
\* registry's keys.
C16_UnknownLayerType ==
    (Constructed /\ \E a \in Places : UnknownType(DefAt(a)))
      => /\ ~TheOut.ok
         /\ IsNone(canvas)
         /\ IsNone(rendered) /\ IsNone(frame)
         /\ \A a \in Places :
              (UnknownType(DefAt(a)) /\ FirstFailure(a))
                => /\ TheOut.err = "ValueError: unknown layer type"
                   /\ TheOut.offending = Get(DefAt(a).type)
                   /\ TheOut.known = {"image", "feature"}
\* construction has failed on an unknown type that follows a pane that built
C16_Witness ==
    /\ Constructed
    /\ ~TheOut.ok
    /\ TheOut.offending = "nonexistent"
    /\ Len(config.panes) = 2
    /\ \E a \in Places : a[1] = 2 /\ a[2] = 2 /\ UnknownType(DefAt(a)) /\ FirstFailure(a)

\* C17 as stated: every layer definition of a Canvas that was constructed
\* gave a registered type explicitly and was built as that kind of layer.
C17_Original ==
    (Constructed /\ TheOut.ok)
      => \A a \in Places :
           /\ ~IsNone(DefAt(a).type)
           /\ Get(DefAt(a).type) \in {"image", "feature"}
           /\ Get(canvas).panes[a[1]].layers[a[2]].kind = Get(DefAt(a).type)

\* C17 amended: a definition that gives a type is built as that kind of
\* layer if the type is registered and makes construction fail if it is
\* not; a definition that gives no type is built as an image layer (the
\* default of _build_layer), never as anything else.
C17_DefaultsOnlyAbsentType ==
    Constructed
      => /\ (\E a \in Places : UnknownType(DefAt(a))) => ~TheOut.ok
         /\ TheOut.ok
              => \A a \in Places :
                   Get(canvas).panes[a[1]].layers[a[2]].kind =
                     (IF IsNone(DefAt(a).type) THEN "image" ELSE Get(DefAt(a).type))
\* a Canvas built from a definition without a type next to a feature layer
C17_Witness ==
    /\ Constructed
    /\ TheOut.ok
    /\ \E a, b \in Places :
         /\ IsNone(DefAt(a).type)
         /\ DefAt(b).type = Some("feature")
         /\ Get(canvas).panes[a[1]].layers[a[2]].kind = "image"

\* C18: FeatureLayer('pca') without a basis path does not construct, so a
\* configuration whose first failing definition is such a layer fails
\* Canvas construction with that error and nothing is ever rendered; every
\* configuration of definitions that build ('first3', or 'pca' with a path,
\* file or no file) gives a Canvas whose caches are empty until a render.
C18_PcaPathAtConstruction ==
    /\ \A q \in Opacities :
         /\ ~FeatureLayer_init("pca", q, None).ok
         /\ FeatureLayer_init("first3", q, None).ok
         /\ FeatureLayer_init("pca", q, Some("missing.npz")).ok
    /\ Constructed
         => /\ (\E a \in Places : PcaNoPath(DefAt(a)) /\ FirstFailure(a))
                 => /\ ~TheOut.ok
                    /\ TheOut.err = "ValueError: pca_path is required"
                    /\ IsNone(canvas)
                    /\ IsNone(rendered) /\ IsNone(frame)
            /\ (\A a \in Places : Builds(DefAt(a)))
                 => /\ TheOut.ok
                    /\ ~IsNone(canvas)
                    /\ IsNone(frame)
                         => \A a \in Places :
                              /\ IsNone(Get(canvas).panes[a[1]].layers[a[2]].pca_components)
                              /\ IsNone(Get(canvas).panes[a[1]].layers[a[2]].pca_mean)
\* construction has failed on a pca layer without a path, after an image layer
C18_Witness ==
    /\ Constructed
    /\ ~TheOut.ok
    /\ TheOut.err = "ValueError: pca_path is required"
    /\ \E a \in Places : a[2] = 2 /\ PcaNoPath(DefAt(a)) /\ FirstFailure(a)

\* the model identifier is one build_filter resolves: the pass-through, a
\* results path with a file behind it, or a registered model name
Recognised ==
    \/ model_path = "identity"
    \/ model_path = "results.json" /\ fs["results.json"].exists
    \/ model_path \in {"dinov1-small", "dinov1-base", "dinov2-small", "dinov2-base"}
UnsupportedModelError == Some("ValueError: unsupported model")

\* C19: with an identifier that is neither 'identity', nor an existing file
\* with a results extension, nor a registered model name, build_filter
\* raises the unsupported-model error and the run ends there: no filter, no
\* Canvas and no sink object exist, no frame is read, processed or written
\* and no output file appears; the error is raised for no other identifier.
C19_UnsupportedModelAtBuild ==
    /\ ~Recognised
         => /\ pc \in {"start", "build_filter", "raised"}
            /\ IsNone(vid_filter)
            /\ IsNone(canvas)
            /\ IsNone(writer)
            /\ log = <<>>
            /\ disk = NoFile
            /\ closes = 0
            /\ (pc = "raised" /\ source.exists /\ source.opens)
                 => error = UnsupportedModelError
    /\ error = UnsupportedModelError => ~Recognised
\* the run has failed on a path that exists but has no results extension
C19_Witness ==
    /\ pc = "raised"
    /\ error = UnsupportedModelError
    /\ model_path = "notes.txt"
    /\ fs["notes.txt"].exists
    /\ Len(source.frames) > 0

\* C20: every process_frame call of a run returns one output for the frame
\* just read, the k-th call (k from 0) returning frame_idx = k, so that the
\* frame_idx values never decrease from one output to the next; while a
\* frame is rendered or written the output in hand is the one of that frame.
C20_FrameIdxInOrder ==
    /\ [](pc \in {"render", "write_frame"}
            => /\ ~IsNone(filter_output)
               /\ Get(filter_output).frame_idx = pos - 1
               /\ Count("process_frame") = pos)
    /\ [][(pc = "process_frame" /\ pc' = "render")
            => /\ Get(filter_output').frame_idx = Count("process_frame")
               /\ Get(vid_filter).kind = "identity"
                    => Get(filter_output').cls = "FilterOutput"
               /\ ~IsNone(filter_output)
                    => /\ Get(filter_output').frame_idx >= Get(filter_output).frame_idx
                       /\ Get(filter_output').frame_idx = Get(filter_output).frame_idx + 1
         ]_vars
\* the pass-through step has returned the output of the second frame
C20_Witness ==
    /\ pc = "write_frame"
    /\ model_path = "identity"
    /\ pos = 2
    /\ Get(filter_output).frame_idx = 1
    /\ Count("process_frame") = 2

\* the calls made on the VideoWriter exercised on its own
LastOp == IF log = <<>> THEN "" ELSE log[Len(log)].op
IsClose == closes' = closes + 1
IsWrite == Len(log') = Len(log) + 1 /\ log'[Len(log')].op = "write_frame"
Held(w) == ~IsNone(Get(w).writer)

\* C21: VideoWriter.close() is safe in every state and idempotent: called
\* before any write, after writes or repeatedly it raises nothing and leaves
\* the writer unopened; it releases the cv2 writer exactly when one is held,
\* touches neither the frames written nor the frame count, and a call that
\* finds no cv2 writer (the first call on a fresh writer, the second and
\* later calls in a row) changes nothing at all.
C21_CloseIdempotent ==
    /\ [](LastOp = "close" => (~Held(writer) /\ IsNone(error)))
    /\ [](disk.released <= closes)
    /\ [][IsClose
            => /\ ~Held(writer')
               /\ IsNone(error')
               /\ Get(writer').frame_count = Get(writer).frame_count
               /\ disk'.frames = disk.frames
               /\ disk'.exists = disk.exists
               /\ disk'.released = disk.released + (IF Held(writer) THEN 1 ELSE 0)
               /\ (LastOp \in {"", "close"} \/ ~Held(writer))
                    => (writer' = writer /\ disk' = disk)
         ]_vars
\* a write followed by two calls of close(): one release
C21_Witness ==
    /\ Len(log) = 3
    /\ log[1].op = "write_frame"
    /\ log[2].op = "close"
    /\ log[3].op = "close"
    /\ disk.released = 1
    /\ Len(disk.frames) = 1

\* C27: close() is not terminal.  It leaves frame_count as it is, and a
\* write_frame after it opens a new cv2 writer on the same path, sized from
\* that frame (a path that opens takes the frame, one that does not raises
\* the sink-open error as on the first write); frame_count never decreases
\* and, on a path that opens, counts every write_frame call of the
\* instance's lifetime.
C27_CloseNotTerminal ==
    /\ [](sink_opens => Get(writer).frame_count = Count("write_frame"))
    /\ [][/\ Get(writer').frame_count >= Get(writer).frame_count
          /\ IsClose => Get(writer').frame_count = Get(writer).frame_count
          /\ (IsWrite /\ LastOp = "close")
               => /\ Held(writer')
                  /\ Get(Get(writer').writer).w = Get(frame').w
                  /\ Get(Get(writer').writer).h = Get(frame').h
                  /\ IF sink_opens
                     THEN /\ IsNone(error')
                          /\ Get(writer').frame_count = Get(writer).frame_count + 1
                          /\ disk'.exists
                          /\ disk'.frames = <<Get(frame')>>
                     ELSE /\ error' = SinkOpenError
                          /\ Get(writer').frame_count = Get(writer).frame_count
                          /\ disk' = disk
         ]_vars
\* a frame written, close(), and a frame of another size written: the
\* second cv2 writer has taken it and the count is 2
C27_Witness ==
    /\ Len(log) = 3
    /\ log[1].op = "write_frame"
    /\ log[2].op = "close"
    /\ log[3].op = "write_frame"
    /\ Get(writer).frame_count = 2
    /\ Held(writer)
    /\ disk.frames = <<Get(frame)>>
    /\ Get(Get(writer).writer).w = 2
    /\ disk.released = 1

\* the end-to-end scenario: a source that opens, the pass-through analysis
\* step, no configuration file, an output path that opens
PassThroughDefault ==
    /\ source.exists /\ source.opens
    /\ model_path = "identity"
    /\ IsNone(config_path)
    /\ sink_opens

\* C22: a run over N frames of size W x H with the pass-through step and
\* the default configuration raises nothing and, when it has completed, has
\* written exactly N frames, each W x H; throughout, the sink's frame_count
\* equals the number of write_frame calls made and the number of frames in
\* the output.
C22_AllFramesWritten ==
    /\ PassThroughDefault
         => /\ pc # "raised"
            /\ IsNone(error)
            /\ \A i \in 1..Len(disk.frames) :
                  /\ disk.frames[i].h = source.frames[i].h
                  /\ disk.frames[i].w = source.frames[i].w
            /\ pc = "done"
                 => /\ Len(disk.frames) = Len(source.frames)
                    /\ Get(writer).frame_count = Len(source.frames)
                    /\ closes = 1
    /\ (LoopEntered /\ sink_opens)
         => /\ Get(writer).frame_count = Count("write_frame")
            /\ Get(writer).frame_count = Len(disk.frames)
\* the run over two frames of width 1 and height 2 has completed
C22_Witness ==
    /\ PassThroughDefault
    /\ pc = "done"
    /\ Len(source.frames) = 2
    /\ Len(disk.frames) = 2
    /\ disk.frames[2].h = 2
    /\ disk.frames[2].w = 1
    /\ Get(writer).frame_count = 2

\* an exception is on its way out of the frame loop
Failing == LoopEntered /\ ~IsNone(error)
\* the stage after each stage of the loop
NextStage ==
    [s \in {"process_frame", "render", "write_frame"} |->
       IF s = "process_frame" THEN "render"
       ELSE IF s = "render" THEN "write_frame" ELSE "next_frame"]

\* C23: a stage of frame k either succeeds and hands over to the next
\* stage, or raises and ends the loop: from then on no frame is read,
\* processed, rendered or written, the only call left is the one close(),
\* the same exception reaches the caller, and the output keeps the frames
\* 0..k-1 written before.
C23_NoRetryNoSuppression ==
    /\ [](Failing
            => /\ pc \in {"finally", "raised"}
               /\ pos >= 1
               /\ Count("read") = pos
               /\ \A i \in 1..Len(log) : log[i].op # "close" => log[i].k <= pos - 1
               /\ Count("write_frame") \in {pos - 1, pos}
               /\ Len(disk.frames) = pos - 1
               /\ Get(writer).frame_count = pos - 1
               /\ disk.exists <=> pos > 1)
    /\ []((pc = "raised" /\ LoopEntered)
            => (~IsNone(error) /\ closes = 1 /\ log[Len(log)].op = "close"))
    /\ [][/\ pc \in {"process_frame", "render", "write_frame"}
               => \/ pc' = NextStage[pc] /\ IsNone(error')
                  \/ pc' = "finally" /\ ~IsNone(error')
                  \/ UNCHANGED vars
          /\ Failing
               => /\ error' = error
                  /\ pos' = pos
                  /\ disk'.frames = disk.frames
                  /\ disk'.exists = disk.exists
                  /\ log' \in {log, Append(log, Event("close", pos))}
                  /\ pc' \in {pc, "raised"}
         ]_vars
\* inference failed on the second frame: the run has ended on that error,
\* closed, with the first frame in the output
C23_Witness ==
    /\ pc = "raised"
    /\ error = Some("RuntimeError: inference failed")
    /\ pos = 2
    /\ disk.exists
    /\ Len(disk.frames) = 1
    /\ closes = 1

\* C29: over a source without frames the loop body never runs: no
\* write_frame call, no cv2 writer, no output file, frame_count 0; the run
\* completes normally after its one close(), which releases nothing.
C29_EmptySourceNeverOpensSink ==
    Len(source.frames) = 0
      => /\ pc \notin {"process_frame", "render", "write_frame"}
         /\ Count("write_frame") = 0
         /\ disk = NoFile
         /\ LoopEntered
              => /\ IsNone(Get(writer).writer)
                 /\ Get(writer).frame_count = 0
                 /\ IsNone(error)
         /\ (LoopEntered /\ Returned)
              => /\ pc = "done"
                 /\ closes = 1
                 /\ log = <<Event("close", 0)>>
\* the run over an empty source has completed, on an output path that
\* would not even open
C29_Witness ==
    /\ pc = "done"
    /\ source.opens
    /\ Len(source.frames) = 0
    /\ ~sink_opens
    /\ closes = 1
    /\ disk = NoFile

\* the tensor handed to _reduce_first3 and the positions of one channel
TheFeatures == Get(filter_output).features
Positions == (1..TheFeatures.h) \X (1..TheFeatures.w)
ValueAt(c, p) == TheFeatures.v[c, p[1], p[2]]
\* channel c is constant / m is its least (greatest) value
Constant(c) == \A p, q \in Positions : ValueAt(c, p) = ValueAt(c, q)
Least(c, m) == (\E p \in Positions : ValueAt(c, p) = m)
                 /\ \A p \in Positions : ValueAt(c, p) >= m
Greatest(c, m) == (\E p \in Positions : ValueAt(c, p) = m)
                    /\ \A p \in Positions : ValueAt(c, p) <= m

\* C25: for a (D, H, W) tensor with D >= 3 and H, W > 0, _reduce_first3
\* returns an (H, W, 3) image whose channel c is computed from channel c of
\* the tensor alone: all zero when that channel is constant; else its least
\* value goes to 0, its greatest to 255 and every value v to the integer
\* part of (v - least) / (greatest - least) * 255, within 0..255.
C25_First3PerChannel ==
    (~IsNone(out) /\ Get(out).call = "reduce_first3"
       /\ TheFeatures.d >= 3 /\ TheFeatures.h > 0 /\ TheFeatures.w > 0)
      => /\ Get(out).ok
         /\ Get(out).val.h = TheFeatures.h
         /\ Get(out).val.w = TheFeatures.w
         /\ \A p \in Positions :
              /\ DOMAIN Get(out).val.px[p] = 1..3
              /\ \A c \in 1..3 :
                   /\ Get(out).val.px[p][c] \in 0..255
                   /\ Constant(c) => Get(out).val.px[p][c] = 0
                   /\ \A lo, hi \in FeatureValues :
                        (Least(c, lo) /\ Greatest(c, hi) /\ lo < hi)
                          => /\ ValueAt(c, p) = lo => Get(out).val.px[p][c] = 0
                             /\ ValueAt(c, p) = hi => Get(out).val.px[p][c] = 255
                             /\ Get(out).val.px[p][c] * (hi - lo)
                                  <= (ValueAt(c, p) - lo) * 255
                             /\ (ValueAt(c, p) - lo) * 255
                                  < (Get(out).val.px[p][c] + 1) * (hi - lo)
\* a tensor with a constant channel, a channel spanning 0..3 with the value
\* 1 in it (1/3 of the range, truncated to 85) and a channel spanning 1..3
C25_Witness ==
    /\ ~IsNone(out)
    /\ Get(out).call = "reduce_first3"
    /\ Get(out).ok
    /\ TheFeatures.d = 3
    /\ Constant(1) /\ ValueAt(1, <<1, 1>>) = 3
    /\ ValueAt(2, <<1, 1>>) = 1 /\ Least(2, 1) /\ Greatest(2, 3)
    /\ Get(out).val.px[<<1, 1>>] = <<0, 0, 0>>
    /\ Get(out).val.px[<<1, 2>>][2] = 255

\* the 'pca' layer called over and over, its cache and the file behind its path
PcaLayer == pane.layers[1]
Cached(l) == ~IsNone(l.pca_components) /\ ~IsNone(l.pca_mean)
BasisFile == fs[Get(PcaLayer.pca_path)]
WellFormed(b) == b.exists /\ ~IsNone(b.components) /\ ~IsNone(b.mean)
IsPcaRender == pos' = pos + 1
LoadError(e) ==
    e \in {Some("FileNotFoundError"), Some("KeyError: components"),
            Some("KeyError: mean")}

C28_CacheAllOrNothing ==
    /\ IsNone(PcaLayer.pca_components) <=> IsNone(PcaLayer.pca_mean)
    /\ LoadError(error) => (IsNone(PcaLayer.pca_components) /\ IsNone(PcaLayer.pca_mean))

\* C26: within one run the layout is fixed by the first render and every
\* composed frame handed to write_frame has the layout's height and width,
\* whatever the sizes of the input frames; so the cv2 writer, sized by the
\* first write, is handed only frames of its own size: every frame written
\* is stored, none is dropped for its size.
C26_ComposedSizeFixed ==
    /\ [](pc = "write_frame"
            => /\ HasLayout
               /\ Get(rendered).h = TheLayout.height
               /\ Get(rendered).w = TheLayout.width)
    /\ []((LoopEntered /\ Held(writer))
            => /\ HasLayout
               /\ Get(Get(writer).writer).h = TheLayout.height
               /\ Get(Get(writer).writer).w = TheLayout.width)
    /\ [](\A i \in 1..Len(disk.frames) :
             /\ disk.frames[i].h = disk.frames[1].h
             /\ disk.frames[i].w = disk.frames[1].w
             /\ HasLayout
             /\ disk.frames[i].h = TheLayout.height
             /\ disk.frames[i].w = TheLayout.width)
    /\ []((LoopEntered /\ sink_opens) => Len(disk.frames) = Get(writer).frame_count)
    /\ [][HasLayout => (HasLayout' /\ TheLayout' = TheLayout)]_vars
\* two frames written, the second input frame of another size than the
\* first: both composed frames have the size the first one fixed
C26_Witness ==
    /\ Len(disk.frames) = 2
    /\ source.frames[1].h # source.frames[2].h
    /\ source.frames[1].w # source.frames[2].w
    /\ IsNone(config_path)
    /\ disk.frames[2].h = source.frames[1].h
    /\ disk.frames[2].w = source.frames[1].w
    /\ Get(writer).frame_count = 2

\* the configured layout type is not one _init_layout supports
BadLayoutType == config.layout.type # "grid"

\* C30: on a Canvas whose layout type is unsupported every render call
\* raises the unsupported-layout-type error and leaves the Canvas as it was
\* constructed: layout None, the panes and their layers untouched (no pane
\* was rendered, no basis file read), nothing composed; a call that raises
\* this error never changes the Canvas.
C30_FailedInitLeavesCanvas ==
    /\ [](BadLayoutType
            => /\ IsNone(TheCanvas.layout)
               /\ canvas = Canvas_init(config).canvas
               /\ \A i \in 1..NPanes : \A j \in 1..Len(TheCanvas.panes[i].layers) :
                     /\ TheCanvas.panes[i].layers[j].basis_reads = 0
                     /\ IsNone(TheCanvas.panes[i].layers[j].pca_components)
               /\ IsNone(rendered)
               /\ ~IsNone(frame) => error = LayoutTypeError)
    /\ [](error = LayoutTypeError => BadLayoutType)
    /\ [][error' = LayoutTypeError => canvas' = canvas]_vars
\* a render with a feature output has failed on the layout type, on a
\* Canvas whose second pane holds a 'pca' layer
C30_Witness ==
    /\ BadLayoutType
    /\ error = LayoutTypeError
    /\ ~IsNone(filter_output)
    /\ Get(filter_output).cls = "FeatureOutput"
    /\ Get(filter_output).features.d = 3
    /\ NPanes = 2
    /\ TheCanvas.panes[2].layers[2].method = "pca"
    /\ IsNone(TheCanvas.layout)

====
